---- MODULE Spec2Model ----
(***************************************************************************)
(* Code-Mapper: the multi-language structural scanner of                   *)
(* csharp_scan_main.py (class CSharpProMapper).                             *)
(*                                                                         *)
(* Text is modelled character by character: a string is a sequence of      *)
(* one-character strings, a file is a sequence of such lines.  The regular *)
(* expressions of the scanner are operators over these sequences that      *)
(* return the captured group, or NoMatch.                                  *)
(***************************************************************************)
EXTENDS Integers, Sequences, FiniteSets, TLC

\* ------------------------------------------------------------------------
\* Bounds of the model (not program constants)
\* ------------------------------------------------------------------------
MaxLines == 3
MaxBraceLines == 3
MaxPyLines == 4
MaxTabs == 2

\* ------------------------------------------------------------------------
\* Characters and Python's str operations
\* ------------------------------------------------------------------------
LowerCh == {"a","b","c","d","e","f","g","h","i","j","k","l","m",
            "n","o","p","q","r","s","t","u","v","w","x","y","z"}
UpperCh == {"A","B","C","D","E","F","G","H","I","J","K","L","M",
            "N","O","P","Q","R","S","T","U","V","W","X","Y","Z"}
DigitCh == {"0","1","2","3","4","5","6","7","8","9"}
\* regex \s, and what str.strip() removes
SpaceCh == {" ", "\t", "\n", "\r"}
\* regex \w
WordCh == LowerCh \cup UpperCh \cup DigitCh \cup {"_"}
\* regex [A-Za-z_]
NameStartCh == LowerCh \cup UpperCh \cup {"_"}
\* regex [\w<>\[\],\.\?:]
TypeCh == WordCh \cup {"<", ">", "[", "]", ",", ".", "?", ":"}

NoMatch == <<>>

\* the value of a one-element set: The({F(x) : x \in {e}}) is F(e), with e
\* computed once
The(S) == CHOOSE x \in S : TRUE

SetMin(S) == CHOOSE x \in S : \A y \in S : x <= y
SetMax(S) == CHOOSE x \in S : \A y \in S : x >= y

\* str.lower() on one character
LowerOf(c) ==
    CASE c = "A" -> "a" [] c = "B" -> "b" [] c = "C" -> "c" [] c = "D" -> "d"
      [] c = "E" -> "e" [] c = "F" -> "f" [] c = "G" -> "g" [] c = "H" -> "h"
      [] c = "I" -> "i" [] c = "J" -> "j" [] c = "K" -> "k" [] c = "L" -> "l"
      [] c = "M" -> "m" [] c = "N" -> "n" [] c = "O" -> "o" [] c = "P" -> "p"
      [] c = "Q" -> "q" [] c = "R" -> "r" [] c = "S" -> "s" [] c = "T" -> "t"
      [] c = "U" -> "u" [] c = "V" -> "v" [] c = "W" -> "w" [] c = "X" -> "x"
      [] c = "Y" -> "y" [] c = "Z" -> "z" [] OTHER -> c
Lower(s) == [i \in 1..Len(s) |-> LowerOf(s[i])]

\* the slice of s from the first to the last index of a set of indices
Between(s, ns) == IF ns = {} THEN <<>> ELSE SubSeq(s, SetMin(ns), SetMax(ns))
UpToLast(s, ns) == IF ns = {} THEN <<>> ELSE SubSeq(s, 1, SetMax(ns))
BeforeFirst(n, ns) == IF ns = {} THEN n ELSE SetMin(ns) - 1
\* s.strip()
Strip(s) == The({ Between(s, ns) : ns \in {{i \in 1..Len(s) : s[i] \notin SpaceCh}} })
\* s.rstrip("\n")
RStripNewline(s) == The({ UpToLast(s, ns) : ns \in {{i \in 1..Len(s) : s[i] # "\n"}} })
\* len(s) - len(s.lstrip(" "))
LeadingSpaces(s) == The({ BeforeFirst(Len(s), ns) : ns \in {{i \in 1..Len(s) : s[i] # " "}} })
\* s[i:].startswith(p), i counted from 1
StartsAt(s, i, p) == i >= 1 /\ i + Len(p) - 1 <= Len(s) /\ SubSeq(s, i, i + Len(p) - 1) = p
StartsWith(s, p) == StartsAt(s, 1, p)
\* sub in s
Contains(s, sub) == \E i \in 1..(Len(s) - Len(sub) + 1) : StartsAt(s, i, sub)
\* s.count(c) for a one-character c
Count(s, c) == Cardinality({i \in 1..Len(s) : s[i] = c})
\* "\n".join(ls[i-1:n]) for n <= len(ls), by halves
RECURSIVE JoinFrom(_, _, _)
JoinFrom(ls, i, n) ==
    IF i > n THEN <<>>
    ELSE IF i = n THEN ls[i]
    ELSE JoinFrom(ls, i, (i + n) \div 2) \o <<"\n">> \o JoinFrom(ls, (i + n) \div 2 + 1, n)
\* "\n".join(ls[:n])
JoinHead(ls, n) == JoinFrom(ls, 1, IF n < Len(ls) THEN n ELSE Len(ls))
\* the index of the last character of the longest run of characters of C
\* that starts at i (i - 1 when s[i] is not in C): a greedy C*
RunEnd(s, i, C) == The({ BeforeFirst(Len(s), ns) : ns \in {{k \in i..Len(s) : s[k] \notin C}} })
\* str(n) of a natural number
DigitStr(d) ==
    CASE d = 0 -> "0" [] d = 1 -> "1" [] d = 2 -> "2" [] d = 3 -> "3" [] d = 4 -> "4"
      [] d = 5 -> "5" [] d = 6 -> "6" [] d = 7 -> "7" [] d = 8 -> "8" [] d = 9 -> "9"
RECURSIVE Str(_)
Str(n) == IF n < 10 THEN <<DigitStr(n)>> ELSE Str(n \div 10) \o <<DigitStr(n % 10)>>

\* ------------------------------------------------------------------------
\* Language detection
\* ------------------------------------------------------------------------
\* os.path.splitext(path)[1]: from the last dot of the last path component,
\* leading dots of the component not counted
LastIndexOf(s, c) == SetMax({0} \cup {i \in 1..Len(s) : s[i] = c})
ExtFrom(path, sepIndex, dotIndex) ==
    IF dotIndex > sepIndex /\ \E k \in (sepIndex + 1)..(dotIndex - 1) : path[k] # "."
    THEN SubSeq(path, dotIndex, Len(path))
    ELSE <<>>
SplitExt(path) == ExtFrom(path, LastIndexOf(path, "/"), LastIndexOf(path, "."))

extension_map ==
    ( <<".","c","s">> :> "csharp" ) @@ ( <<".","j","a","v","a">> :> "java" ) @@
    ( <<".","j","s">> :> "javascript" ) @@ ( <<".","j","s","x">> :> "javascript" ) @@
    ( <<".","t","s">> :> "typescript" ) @@ ( <<".","t","s","x">> :> "typescript" ) @@
    ( <<".","p","y">> :> "python" ) @@ ( <<".","g","o">> :> "go" ) @@
    ( <<".","r","s">> :> "rust" ) @@ ( <<".","c">> :> "c" ) @@ ( <<".","h">> :> "c" ) @@
    ( <<".","c","p","p">> :> "cpp" ) @@ ( <<".","c","c">> :> "cpp" ) @@ ( <<".","c","x","x">> :> "cpp" ) @@
    ( <<".","h","p","p">> :> "cpp" ) @@ ( <<".","p","h","p">> :> "php" ) @@ ( <<".","s","w","i","f","t">> :> "swift" ) @@
    ( <<".","k","t">> :> "kotlin" ) @@ ( <<".","k","t","s">> :> "kotlin" ) @@
    ( <<".","s","c","a","l","a">> :> "scala" ) @@ ( <<".","d","a","r","t">> :> "dart" ) @@ ( <<".","r","b">> :> "ruby" ) @@
    ( <<".","l","u","a">> :> "lua" ) @@ ( <<".","p","l">> :> "perl" ) @@ ( <<".","r">> :> "r" ) @@
    ( <<".","m">> :> "objective-c" ) @@ ( <<".","m","m">> :> "objective-c" ) @@
    ( <<".","s","o","l">> :> "solidity" ) @@ ( <<".","f","s">> :> "fsharp" ) @@ ( <<".","f","s","i">> :> "fsharp" ) @@
    ( <<".","f","s","x">> :> "fsharp" ) @@ ( <<".","v","b">> :> "vb" ) @@ ( <<".","p","a","s">> :> "pascal" ) @@
    ( <<".","n","i","m">> :> "nim" ) @@ ( <<".","z","i","g">> :> "zig" ) @@ ( <<".","h","s">> :> "haskell" ) @@
    ( <<".","e","x">> :> "elixir" ) @@ ( <<".","e","x","s">> :> "elixir" ) @@
    ( <<".","m","a","l">> :> "malbolge" ) @@ ( <<".","m","b","g">> :> "malbolge" ) @@
    ( <<".","m","a","l","b","o","l","g","e">> :> "malbolge" ) @@
    ( <<".","e","r","l">> :> "erlang" ) @@ ( <<".","c","l","j">> :> "clojure" ) @@ ( <<".","g","r","o","o","v","y">> :> "groovy" )

\* the characters of "ji*p</vo"
op_chars == <<"j", "i", "*", "p", "<", "/", "v", "o">>
OpCharSet == {op_chars[i] : i \in 1..Len(op_chars)}

\* the content signatures tried with `def` + colon ahead of the csharp tokens
HeadSignatureDefFirst(head) ==
    IF StartsWith(head, <<"#","!","/">>) /\ Contains(head, <<"p","y","t","h","o","n">>) THEN "python"
    ELSE IF Contains(head, <<"d","e","f"," ">>) /\ Contains(head, <<":">>) THEN "python"
    ELSE IF Contains(head, <<"u","s","i","n","g"," ","s","y","s","t","e","m",";">>) \/ Contains(head, <<"n","a","m","e","s","p","a","c","e"," ">>)
         THEN "csharp"
    ELSE IF Contains(head, <<"p","u","b","l","i","c"," ","s","t","a","t","i","c"," ","v","o","i","d"," ","m","a","i","n">>) \/ Contains(head, <<"i","m","p","o","r","t"," ","j","a","v","a",".">>)
         THEN "java"
    ELSE IF Contains(head, <<"f","u","n","c","t","i","o","n"," ">>) \/ Contains(head, <<"=",">">>) THEN "javascript"
    ELSE IF \E i \in 1..Len(head) : head[i] \in OpCharSet THEN "malbolge"
    ELSE "unknown"
\* the content signatures of detect_language, tried when the extension is
\* not in the table
HeadSignature(head) ==
    IF StartsWith(head, <<"#","!","/">>) /\ Contains(head, <<"p","y","t","h","o","n">>) THEN "python"
    ELSE IF Contains(head, <<"u","s","i","n","g"," ","s","y","s","t","e","m",";">>) \/ Contains(head, <<"n","a","m","e","s","p","a","c","e"," ">>)
         THEN "csharp"
    ELSE IF Contains(head, <<"p","u","b","l","i","c"," ","s","t","a","t","i","c"," ","v","o","i","d"," ","m","a","i","n">>) \/ Contains(head, <<"i","m","p","o","r","t"," ","j","a","v","a",".">>)
         THEN "java"
    ELSE IF Contains(head, <<"d","e","f"," ">>) /\ Contains(head, <<":">>) THEN "python"
    ELSE IF Contains(head, <<"f","u","n","c","t","i","o","n"," ">>) \/ Contains(head, <<"=",">">>) THEN "javascript"
    ELSE IF \E i \in 1..Len(head) : head[i] \in OpCharSet THEN "malbolge"
    ELSE "unknown"
\* lines[:3]
HeadLines == 3
DetectByContent(file_lines) == HeadSignature(Lower(JoinHead(file_lines, HeadLines)))

\* the extension table first, the content signatures when it has no entry
TagOfExt(ext, file_lines) ==
    IF ext \in DOMAIN extension_map THEN extension_map[ext] ELSE DetectByContent(file_lines)
\* the extension looked up as written, not lowercased
detect_language_as_written(path, file_lines) == TagOfExt(SplitExt(path), file_lines)
detect_language(path, file_lines) == TagOfExt(Lower(SplitExt(path)), file_lines)

indicators ==
    << <<"c","l","a","s","s"," ">>, <<"d","e","f"," ">>, <<"f","u","n","c","t","i","o","n"," ">>, <<"f","u","n","c"," ">>, <<"f","n"," ">>, <<"p","u","b","l","i","c"," ">>,
       <<"p","r","i","v","a","t","e"," ">>, <<"i","m","p","o","r","t"," ">>, <<"u","s","i","n","g"," ">>, <<"n","a","m","e","s","p","a","c","e"," ">>, <<"r","e","t","u","r","n"," ">>,
       <<"{">>, <<"}">>, <<";">>, <<"=",">">> >>

\* lines[:120]
SampleLines == 120
\* score >= 2
MinScore == 2

\* a score that counts every occurrence of a marker
ScoreOccurrences(sample) ==
    Cardinality({ ki \in (1..Len(indicators)) \X (1..Len(sample)) :
                    StartsAt(sample, ki[2], indicators[ki[1]]) })
\* sum(1 for marker in indicators if marker in sample)
Score(sample) == Cardinality({k \in 1..Len(indicators) : Contains(sample, indicators[k])})
is_probably_programming_language(file_lines) == Score(JoinHead(file_lines, SampleLines)) >= MinScore

\* ------------------------------------------------------------------------
\* collect_missing_prerequisites
\* ------------------------------------------------------------------------
\* f"Python 3.9+ required (detected {version_info.major}.{version_info.minor})."
VersionHint(major, minor) ==
    <<"P","y","t","h","o","n"," ","3",".","9","+"," ","r","e","q","u","i","r","e","d"," ","(","d","e","t","e","c","t","e","d"," ">> \o Str(major) \o <<".">> \o Str(minor) \o <<")",".">>
required_modules ==
    << << <<"t","k","i","n","t","e","r">>, <<"T","k","i","n","t","e","r"," ","i","s"," ","r","e","q","u","i","r","e","d","."," ","O","n"," ","L","i","n","u","x"," ","i","n","s","t","a","l","l"," ","p","y","t","h","o","n","3","-","t","k",".">> >>,
       << <<"P","I","L">>, <<"P","i","l","l","o","w"," ","i","s"," ","r","e","q","u","i","r","e","d"," ","f","o","r"," ","P","N","G"," ","s","c","r","e","e","n","s","h","o","t","s","."," ","I","n","s","t","a","l","l",":"," ","p","i","p"," ","i","n","s","t","a","l","l"," ","p","i","l","l","o","w">> >> >>
\* the version test on the minor number alone
VersionTooOldByMinor(major, minor) == major < 3 \/ minor < 9
\* (version_info.major, version_info.minor) < (3, 9)
VersionTooOld(major, minor) == major < 3 \/ (major = 3 /\ minor < 9)
\* the install hints of the modules module_checker finds no spec for; found
\* is the set of the names it finds
ModuleHints(unmet) == [k \in 1..Len(unmet) |-> unmet[k][2]]
collect_missing_prerequisites(major, minor, found) ==
    (IF VersionTooOld(major, minor) THEN <<VersionHint(major, minor)>> ELSE <<>>)
        \o ModuleHints(SelectSeq(required_modules, LAMBDA m : m[1] \notin found))

\* ------------------------------------------------------------------------
\* The language specs: the regular expressions of get_language_spec
\* ------------------------------------------------------------------------
\* class_keywords, in the order of the alternation
class_keywords(lang) ==
    IF lang \in {"java"}
    THEN << <<"c","l","a","s","s">>, <<"i","n","t","e","r","f","a","c","e">>, <<"e","n","u","m">>, <<"r","e","c","o","r","d">> >>
    ELSE IF lang \in {"javascript", "typescript", "dart"}
    THEN << <<"c","l","a","s","s">>, <<"i","n","t","e","r","f","a","c","e">>, <<"e","n","u","m">> >>
    ELSE IF lang \in {"go"}
    THEN << <<"s","t","r","u","c","t">>, <<"i","n","t","e","r","f","a","c","e">>, <<"t","y","p","e">> >>
    ELSE << <<"c","l","a","s","s">>, <<"i","n","t","e","r","f","a","c","e">>, <<"s","t","r","u","c","t">>, <<"r","e","c","o","r","d">>, <<"e","n","u","m">>, <<"m","o","d","u","l","e">> >>

comment_prefixes == << <<"/","/">>, <<"#">>, <<"-","-">> >>

method_modifiers ==
    { <<"p","u","b","l","i","c">>, <<"p","r","i","v","a","t","e">>, <<"p","r","o","t","e","c","t","e","d">>, <<"i","n","t","e","r","n","a","l">>, <<"s","t","a","t","i","c">>, <<"v","i","r","t","u","a","l">>,
      <<"o","v","e","r","r","i","d","e">>, <<"a","s","y","n","c">>, <<"s","e","a","l","e","d">>, <<"n","e","w">>, <<"e","x","t","e","r","n">>, <<"u","n","s","a","f","e">>, <<"p","a","r","t","i","a","l">>,
      <<"a","b","s","t","r","a","c","t">>, <<"f","i","n","a","l">>, <<"o","p","e","n">> }

variable_modifiers ==
    { <<"p","u","b","l","i","c">>, <<"p","r","i","v","a","t","e">>, <<"p","r","o","t","e","c","t","e","d">>, <<"i","n","t","e","r","n","a","l">>, <<"s","t","a","t","i","c">>, <<"r","e","a","d","o","n","l","y">>,
      <<"c","o","n","s","t">>, <<"v","o","l","a","t","i","l","e">>, <<"f","i","n","a","l">>, <<"v","a","r">>, <<"l","e","t">>, <<"m","u","t">> }

blocked ==
    { <<"i","f">>, <<"w","h","i","l","e">>, <<"f","o","r">>, <<"s","w","i","t","c","h">>, <<"c","a","t","c","h">>, <<"l","o","c","k">>, <<"u","s","i","n","g">>, <<"r","e","t","u","r","n">> }

\* a value unless it is NoMatch, then the alternative
OrElse(a, b) == The({ IF x # NoMatch THEN x ELSE b : x \in {a} })
\* s[b..e] for a name that ends at e, NoMatch when e = 0
NameOr(s, b, e) == IF e # 0 THEN SubSeq(s, b, e) ELSE NoMatch

\* ([A-Za-z_]\w*) at i: the index of the last character of the name, 0 if none
NameEnd(s, i) ==
    IF i >= 1 /\ i <= Len(s) /\ s[i] \in NameStartCh THEN RunEnd(s, i, WordCh) ELSE 0

\* (?:kw1|kw2|...)\s+ at i: the index after the white space, 0 if no match
AfterKeyword(s, i, hit) ==
    IF hit = {} THEN 0 ELSE RunEnd(s, i + Len(CHOOSE k \in hit : TRUE), SpaceCh) + 1
KeywordEnd(s, i, kws) ==
    The({ AfterKeyword(s, i, hit) :
            hit \in {{kw \in kws : StartsAt(s, i, kw)
                                    /\ i + Len(kw) <= Len(s)
                                    /\ s[i + Len(kw)] \in SpaceCh}} })
\* ^\s*(?:kw1|kw2|...)\s+
KeywordAtStart(s, kws) ==
    The({ KeywordEnd(s, i, kws) : i \in {RunEnd(s, 1, SpaceCh) + 1} })

\* class_re.search(s): \b(?:class_keywords)\s+([A-Za-z_]\w*), leftmost match
ClassNameFrom(s, j) ==
    IF j = 0 THEN NoMatch ELSE The({ NameOr(s, j, e) : e \in {NameEnd(s, j)} })
ClassMatchAt(s, i, kws) ==
    IF i = 1 \/ s[i - 1] \notin WordCh
    THEN The({ ClassNameFrom(s, j) : j \in {KeywordEnd(s, i, kws)} }) ELSE NoMatch
LeftmostClass(s, kws, at) == IF at = {} THEN NoMatch ELSE ClassMatchAt(s, SetMin(at), kws)
ClassSearch(s, kws) ==
    The({ LeftmostClass(s, kws, at) :
            at \in {{i \in 1..Len(s) : ClassMatchAt(s, i, kws) # NoMatch}} })
KeywordSet(kwseq) == {kwseq[k] : k \in 1..Len(kwseq)}
class_re(lang, s) == ClassSearch(s, KeywordSet(class_keywords(lang)))

\* [\w<>\[\],\.\?:]+\s+([A-Za-z_]\w*)\s* at i: <<first, last>> of the name and
\* the index after the trailing white space; <<0, 0, 0>> if no match
NoTypedName == <<0, 0, 0>>
TypedNameName(s, b, ne) ==
    IF ne # 0 THEN <<b, ne, RunEnd(s, ne + 1, SpaceCh) + 1>> ELSE NoTypedName
TypedNameSpace(s, te, we) ==
    IF we >= te + 1
    THEN The({ TypedNameName(s, we + 1, ne) : ne \in {NameEnd(s, we + 1)} })
    ELSE NoTypedName
TypedNameType(s, i, te) ==
    IF te >= i
    THEN The({ TypedNameSpace(s, te, we) : we \in {RunEnd(s, te + 1, SpaceCh)} })
    ELSE NoTypedName
TypedName(s, i) == The({ TypedNameType(s, i, te) : te \in {RunEnd(s, i, TypeCh)} })

\* \([^;]*\) at p
ParenGroup(s, p) ==
    /\ p <= Len(s) /\ s[p] = "("
    /\ \E q \in (p + 1)..Len(s) :
          s[q] = ")" /\ \A k \in (p + 1)..(q - 1) : s[k] # ";"

\* (?:=[^;]*)?; at p
OptInitThenSemi(s, p) ==
    /\ p <= Len(s)
    /\ \/ s[p] = ";"
       \/ s[p] = "=" /\ \E q \in (p + 1)..Len(s) : s[q] = ";"

\* method_patterns[0] after the modifiers
MethodSigOf(s, t) ==
    IF t[1] # 0 /\ ParenGroup(s, t[3]) THEN SubSeq(s, t[1], t[2]) ELSE NoMatch
MethodSigAt(s, i) == The({ MethodSigOf(s, t) : t \in {TypedName(s, i)} })
\* variable_patterns[0] after the modifiers
VariableSigOf(s, t) ==
    IF t[1] # 0 /\ OptInitThenSemi(s, t[3]) THEN SubSeq(s, t[1], t[2]) ELSE NoMatch
VariableSigAt(s, i) == The({ VariableSigOf(s, t) : t \in {TypedName(s, i)} })

\* ^(?:(?:modifiers)\s+)* followed by the rest: the greedy star takes a
\* modifier when it can and gives it back when the rest then fails
RECURSIVE MethodPattern0From(_, _)
MethodAfterModifier(s, i, j) ==
    OrElse(IF j = 0 THEN NoMatch ELSE MethodPattern0From(s, j), MethodSigAt(s, i))
MethodPattern0From(s, i) ==
    The({ MethodAfterModifier(s, i, j) : j \in {KeywordEnd(s, i, method_modifiers)} })
RECURSIVE VariablePattern0From(_, _)
VariableAfterModifier(s, i, j) ==
    OrElse(IF j = 0 THEN NoMatch ELSE VariablePattern0From(s, j), VariableSigAt(s, i))
VariablePattern0From(s, i) ==
    The({ VariableAfterModifier(s, i, j) : j \in {KeywordEnd(s, i, variable_modifiers)} })

\* ^\s*(?:kws)\s+([A-Za-z_]\w*)\s*\(   (func | fn,def | function)
CallNameThen(s, j, e, p) ==
    IF p <= Len(s) /\ s[p] = "(" THEN SubSeq(s, j, e) ELSE NoMatch
CallNameOf(s, j, e) ==
    IF e # 0 THEN The({ CallNameThen(s, j, e, p) : p \in {RunEnd(s, e + 1, SpaceCh) + 1} })
    ELSE NoMatch
CallNameFrom(s, j) ==
    IF j = 0 THEN NoMatch ELSE The({ CallNameOf(s, j, e) : e \in {NameEnd(s, j)} })
KeywordCall(s, kws) == The({ CallNameFrom(s, j) : j \in {KeywordAtStart(s, kws)} })

\* method_patterns, tried in order: the first that matches gives the name
method_patterns(s) ==
    OrElse(MethodPattern0From(s, 1),
    OrElse(KeywordCall(s, { <<"f","u","n","c">> }),
    OrElse(KeywordCall(s, { <<"f","n">>, <<"d","e","f">> }),
           KeywordCall(s, { <<"f","u","n","c","t","i","o","n">> }))))

\* ^\s*(?:var|let|const)\s+([A-Za-z_]\w*)\s*(?:=|;|$)
DeclNameRest(s, p) ==
    p > Len(s) \/ s[p] \in {"=", ";"} \/ (p = Len(s) /\ s[p] = "\n")
DeclNameOf(s, j, e) ==
    IF e # 0 /\ \E p \in {RunEnd(s, e + 1, SpaceCh) + 1} : DeclNameRest(s, p)
    THEN SubSeq(s, j, e) ELSE NoMatch
DeclNameFrom(s, j) ==
    IF j = 0 THEN NoMatch ELSE The({ DeclNameOf(s, j, e) : e \in {NameEnd(s, j)} })
VariablePattern1(s) ==
    The({ DeclNameFrom(s, j) : j \in {KeywordAtStart(s, { <<"v","a","r">>, <<"l","e","t">>, <<"c","o","n","s","t">> })} })

\* variable_patterns, tried in order
variable_patterns(s) == OrElse(VariablePattern0From(s, 1), VariablePattern1(s))

\* the regular expressions of parse_python_scoped, matched on the line
\* without its newline
\* ^\s*class\s+([A-Za-z_]\w*)
py_class_re(s) == The({ ClassNameFrom(s, j) : j \in {KeywordAtStart(s, { <<"c","l","a","s","s">> })} })
\* ^\s*def\s+([A-Za-z_]\w*)\s*\(
py_method_re(s) == KeywordCall(s, { <<"d","e","f">> })
\* ^\s*(self\.)?([A-Za-z_]\w*)\s*=   (group 2)
PyVarThen(s, i, e, p) ==
    IF p <= Len(s) /\ s[p] = "=" THEN SubSeq(s, i, e) ELSE NoMatch
PyVarOf(s, i, e) ==
    IF e # 0 THEN The({ PyVarThen(s, i, e, p) : p \in {RunEnd(s, e + 1, SpaceCh) + 1} })
    ELSE NoMatch
PyVarAt(s, i) == The({ PyVarOf(s, i, e) : e \in {NameEnd(s, i)} })
PyVarFrom(s, i) ==
    OrElse(IF StartsAt(s, i, <<"s","e","l","f",".">>) THEN PyVarAt(s, i + Len(<<"s","e","l","f",".">>)) ELSE NoMatch, PyVarAt(s, i))
py_var_re(s) == The({ PyVarFrom(s, i) : i \in {RunEnd(s, 1, SpaceCh) + 1} })

\* ------------------------------------------------------------------------
\* State
\* ------------------------------------------------------------------------
VARIABLES
    tabs_data,        \* self.tabs_data: tid -> [path, code, language, tree, node_map,
                      \* canvas_item_to_tree]
    refresh_queue,    \* refresh_all_tabs: the tabs its for loop has still to refresh
    pc,               \* where the running parse_scoped is: "idle" (none runs),
                      \* "python", "brace", "malbolge" (inside that scanner's loop)
    cur_tid,          \* parse_scoped: tid
    language,         \* parse_scoped: language
    lines,            \* the scanner's argument lines
    line_num,         \* the scanners' loop counter: lines 1..line_num are consumed
    brace_depth,      \* parse_brace_scoped: brace_depth
    class_stack,      \* parse_brace_scoped / parse_python_scoped: class_stack
    pending_classes,  \* parse_brace_scoped: pending_classes
    program_node,     \* parse_malbolge_scoped: program_node
    total_ops,        \* parse_malbolge_scoped: total_ops
    counted_lines,    \* parse_malbolge_scoped: counted_lines
    op_counts,        \* parse_malbolge_scoped: op_counts
    raised,           \* an exception left a scanner (TypeError of an int < None)
    call              \* the last direct call of detect_language or
                      \* is_probably_programming_language, with what it returned

scan_locals == <<cur_tid, language, lines, line_num, brace_depth, class_stack,
                 pending_classes, program_node, total_ops, counted_lines, op_counts>>
vars == <<tabs_data, refresh_queue, pc, cur_tid, language, lines, line_num, brace_depth,
          class_stack, pending_classes, program_node, total_ops, counted_lines,
          op_counts, raised, call>>

\* "depth": None of a class entry whose body has not opened
NoneDepth == -1
\* the item "" of a Treeview, parent of the top-level items
NoNode == 0
\* max_line_nodes
max_line_nodes == 120

\* ------------------------------------------------------------------------
\* The tree and the node map of a tab
\* ------------------------------------------------------------------------
\* tree.insert(parent, "end", text=name, values=(kind,)): the new item's id
NewNode(tree) == Len(tree) + 1
TreeInsert(tree, parent, name, kind) ==
    Append(tree, [id |-> NewNode(tree), name |-> name, kind |-> kind, parent |-> parent])

\* _begin_parse: the tree emptied, then the root item and its node_map entry
\* canvas.delete("all"), then root_shape = canvas.create_oval(...): the items of
\* a canvas are numbered in the order of their creation since it was emptied
\* node_map and canvas_item_to_tree not emptied
RootOnlyKeepingMaps(info, tree) ==
    [info EXCEPT !.tree = tree, !.node_map = (tree[1].id :> 1) @@ info.node_map,
                 !.canvas_item_to_tree = (1 :> tree[1].id) @@ info.canvas_item_to_tree]
RootOnly(info, tree) ==
    [info EXCEPT !.tree = tree, !.node_map = (tree[1].id :> 1),
                 !.canvas_item_to_tree = (1 :> tree[1].id)]
_begin_parse(info) == RootOnly(info, TreeInsert(<<>>, NoNode, <<"P","r","o","j","e","c","t"," ","R","o","o","t">>, "Root"))
\* the root_node _begin_parse returns
RootNode(info) == info.tree[1].id

\* _add_entity inserting under "" instead of parent_node
\* link_id, shape_id, text_id: the three items _add_entity draws for an entity,
\* each registered for the entity's node
CanvasItems(item_map) ==
    { Cardinality(DOMAIN item_map) + k : k \in 1..3 }
WithItems(item_map, node) == [cid \in CanvasItems(item_map) |-> node] @@ item_map

_add_entity_at_top(info, parent_node, name, kind, line) ==
    [info EXCEPT !.tree = TreeInsert(info.tree, NoNode, name, kind),
                 !.node_map = (NewNode(info.tree) :> line) @@ info.node_map,
                 !.canvas_item_to_tree = WithItems(info.canvas_item_to_tree, NewNode(info.tree))]
\* the line registered counted from 0
_add_entity_zero_based(info, parent_node, name, kind, line) ==
    [info EXCEPT !.tree = TreeInsert(info.tree, parent_node, name, kind),
                 !.node_map = (NewNode(info.tree) :> line - 1) @@ info.node_map,
                 !.canvas_item_to_tree = WithItems(info.canvas_item_to_tree, NewNode(info.tree))]
\* _add_entity: one item under parent_node, registered in node_map and, by its
\* canvas items, in canvas_item_to_tree
_add_entity(info, parent_node, name, kind, line) ==
    The({ [i EXCEPT !.tree = TreeInsert(i.tree, parent_node, name, kind),
                    !.node_map = (NewNode(i.tree) :> line) @@ i.node_map,
                    !.canvas_item_to_tree = WithItems(i.canvas_item_to_tree, NewNode(i.tree))]
            : i \in {info} })

Top(stack) == stack[Len(stack)]
Pop(stack) == SubSeq(stack, 1, Len(stack) - 1)

\* ------------------------------------------------------------------------
\* parse_python_scoped, one iteration of its loop
\* ------------------------------------------------------------------------
\* the pop loop with indent < in place of indent <=
RECURSIVE PopDeeper(_, _)
PopDeeper(stack, indent) ==
    IF stack # <<>> /\ indent < Top(stack).indent
    THEN PopDeeper(Pop(stack), indent) ELSE stack
\* while class_stack and indent <= class_stack[-1]["indent"]: class_stack.pop()
RECURSIVE PopDedented(_, _)
PopDedented(stack, indent) ==
    IF stack # <<>> /\ indent <= Top(stack).indent
    THEN PopDedented(Pop(stack), indent) ELSE stack

\* not stripped or stripped.startswith("#")
BlankOrHash(stripped) == stripped = <<>> \/ StartsWith(stripped, <<"#">>)
PySkipped(line) == BlankOrHash(Strip(RStripNewline(line)))

\* the owner taken to be the class declared last, open or not
PyOwnerLastClass(info, stack) ==
    IF \E k \in 1..Len(info.tree) : info.tree[k].kind = "Class"
    THEN info.tree[SetMax({k \in 1..Len(info.tree) : info.tree[k].kind = "Class"})].id
    ELSE RootNode(info)
\* the owner of a method or variable: class_stack[-1] or the root
PyOwner(info, stack) == IF stack # <<>> THEN Top(stack).tree_id ELSE RootNode(info)

\* the variable branch tried on every line without "("
PyVariableAnywhere(stack, indent, stripped) == ~Contains(stripped, <<"(">>)
\* the variable branch is tried only inside a class, deeper than its
\* header, on a line without "("
PyVariableAllowed(stack, indent, stripped) ==
    stack # <<>> /\ indent > Top(stack).indent /\ ~Contains(stripped, <<"(">>)

\* a class: added under the innermost open class, then pushed with its indent
PyClass(info, stack, cname, indent, ln) ==
    <<_add_entity(info, PyOwner(info, stack), cname, "Class", ln),
      Append(stack, [name |-> cname, tree_id |-> NewNode(info.tree), indent |-> indent])>>
\* a method or a variable: added under the innermost open class
PyMember(info, stack, name, kind, ln) ==
    <<_add_entity(info, PyOwner(info, stack), name, kind, ln), stack>>
\* the three branches, in the order of the code
PyClassify(info, stack, clean, stripped, indent, cname, mname, ln) ==
    IF cname # NoMatch THEN PyClass(info, stack, cname, indent, ln)
    ELSE IF mname # NoMatch THEN PyMember(info, stack, mname, "Method", ln)
    ELSE IF PyVariableAllowed(stack, indent, stripped)
    THEN The({ IF vname # NoMatch THEN PyMember(info, stack, vname, "Variable", ln)
               ELSE <<info, stack>> : vname \in {py_var_re(clean)} })
    ELSE <<info, stack>>
PyProcess(info, stack0, clean, indent, ln) ==
    The({ PyClassify(info, stack, clean, stripped, indent, cname, mname, ln) :
            stack \in {PopDedented(stack0, indent)}, stripped \in {Strip(clean)},
            cname \in {py_class_re(clean)}, mname \in {py_method_re(clean)} })
PyIndented(info, stack0, clean, ln) ==
    The({ PyProcess(info, stack0, clean, indent, ln) : indent \in {LeadingSpaces(clean)} })
\* the loop body: <<info, class_stack>> after the line
PythonLine(info, stack0, line, ln) ==
    IF PySkipped(line) THEN <<info, stack0>>
    ELSE The({ PyIndented(info, stack0, clean, ln) : clean \in {RStripNewline(line)} })

\* ------------------------------------------------------------------------
\* parse_brace_scoped, one iteration of its loop
\* ------------------------------------------------------------------------
\* the skip test without the comment prefixes
BlankOnly(clean_line) == clean_line = <<>>
\* not clean_line or clean_line.startswith(comment_prefixes)
BlankOrComment(clean_line) ==
    clean_line = <<>>
    \/ \E k \in 1..Len(comment_prefixes) : StartsWith(clean_line, comment_prefixes[k])
BraceSkipped(line) == BlankOrComment(Strip(line))

\* the pop loop with depth <= in place of depth <
RECURSIVE PopClosedAtBoundary(_, _)
PopClosedAtBoundary(stack, depth) ==
    IF stack # <<>> /\ Top(stack).depth # NoneDepth /\ depth <= Top(stack).depth
    THEN PopClosedAtBoundary(Pop(stack), depth) ELSE stack
\* while class_stack and depth < class_stack[-1]["depth"]: class_stack.pop()
RECURSIVE PopClosed(_, _)
PopClosed(stack, depth) ==
    IF stack # <<>> /\ Top(stack).depth # NoneDepth /\ depth < Top(stack).depth
    THEN PopClosed(Pop(stack), depth) ELSE stack
\* the loop before the line has no "is not None" test: comparing an int
\* with the None of the frame it stops at raises TypeError
StopsAtNone(s) == s # <<>> /\ Top(s).depth = NoneDepth
PopRaises(stack, depth) == StopsAtNone(PopClosed(stack, depth))

\* a pending class promoted for every opening brace of the line
PromotePendingPerBrace(stack, pending, pre_depth, open_count) ==
    <<stack \o [k \in 1..SetMin({open_count, Len(pending)}) |->
                  [pending[k] EXCEPT !.depth = pre_depth + k]],
      SubSeq(pending, SetMin({open_count, Len(pending)}) + 1, Len(pending))>>
\* if pending_classes and open_count > 0: the oldest pending class gets
\* depth pre_depth + 1 and moves onto class_stack; <<class_stack, pending_classes>>
PromotePending(stack, pending, pre_depth, open_count) ==
    IF pending # <<>> /\ open_count > 0
    THEN <<Append(stack, [Head(pending) EXCEPT !.depth = pre_depth + 1]), Tail(pending)>>
    ELSE <<stack, pending>>

\* a matched class pushed without its depth set
PlaceClassNoDepth(stack, pending, entry, pre_depth, open_count) ==
    IF open_count > 0
    THEN <<Append(stack, entry), pending>>
    ELSE <<stack, Append(pending, entry)>>
\* a matched class: pushed when its line opens a brace, pending otherwise
PlaceClass(stack, pending, entry, pre_depth, open_count) ==
    IF open_count > 0
    THEN <<Append(stack, [entry EXCEPT !.depth = pre_depth + 1]), pending>>
    ELSE <<stack, Append(pending, entry)>>

\* in_class_scope, and the owner's tree_id (the root's when not in scope)
InClassScope(stack, pre_depth) == stack # <<>> /\ pre_depth = Top(stack).depth
BraceOwner(info, stack, pre_depth) ==
    IF InClassScope(stack, pre_depth) THEN Top(stack).tree_id ELSE RootNode(info)

\* member_name and member_kind of a line: <<name, kind>>, name NoMatch if none
MemberKind(m, v) ==
    IF m # NoMatch THEN <<m, "Method">>
    ELSE IF v # NoMatch THEN <<v, "Variable">>
    ELSE <<NoMatch, "">>
MemberOf(clean_line) ==
    The({ MemberKind(m, variable_patterns(clean_line)) : m \in {method_patterns(clean_line)} })

\* the test without the block-list
AnyMemberAccepted(member_name) == member_name # NoMatch
\* the test with a block-list that misses the keywords of a branch
MemberAcceptedShortList(member_name) ==
    member_name # NoMatch /\ member_name \notin { <<"w","h","i","l","e">>, <<"f","o","r">>, <<"s","w","i","t","c","h">> }
\* if member_name and member_name not in blocked
MemberAccepted(member_name) == member_name # NoMatch /\ member_name \notin blocked

\* the update without the clamp
NoClamp(depth) == depth
\* brace_depth += open_count - close_count; if brace_depth < 0: brace_depth = 0
ClampDepth(depth) == IF depth < 0 THEN 0 ELSE depth

\* a class attached to the entity added last
BraceParentLast(info, stack) == info.tree[Len(info.tree)].id
\* the tree_id of class_stack[-1], the root's when the stack is empty
BraceParent(info, stack) == IF stack # <<>> THEN Top(stack).tree_id ELSE RootNode(info)

\* an iteration without the pop against the new depth
BraceResultUnpopped(info, stack, pending, depth) ==
    [info |-> info, stack |-> stack, pending |-> pending, depth |-> depth, raised |-> FALSE]
\* what an iteration leaves: the tab, the two lists, the depth, and whether
\* it raised; the stack is popped against the new depth
BraceResult(info, stack, pending, depth) ==
    [info |-> info, stack |-> PopClosed(stack, depth), pending |-> pending,
     depth |-> depth, raised |-> FALSE]
\* the class branch
BraceClassPlaced(info, placed, depth1) == BraceResult(info, placed[1], placed[2], depth1)
BraceClass(info, stack, pending, cname, pre_depth, open_count, depth1, ln) ==
    BraceClassPlaced(_add_entity(info, BraceParent(info, stack), cname, "Class", ln),
                     PlaceClass(stack, pending,
                                [name |-> cname, tree_id |-> NewNode(info.tree),
                                 depth |-> NoneDepth],
                                pre_depth, open_count),
                     depth1)
\* the member branch
BraceMember(info, stack, pending, member, pre_depth, depth1, ln) ==
    IF MemberAccepted(member[1])
    THEN BraceResult(_add_entity(info, BraceOwner(info, stack, pre_depth),
                                 member[1], member[2], ln),
                     stack, pending, depth1)
    ELSE BraceResult(info, stack, pending, depth1)
\* the member patterns tried before the class pattern
BraceClassifyMemberFirst(info, stack, pending, cname, clean_line, pre_depth, open_count, depth1, ln) ==
    The({ IF cname # NoMatch /\ ~MemberAccepted(member[1])
          THEN BraceClass(info, stack, pending, cname, pre_depth, open_count, depth1, ln)
          ELSE BraceMember(info, stack, pending, member, pre_depth, depth1, ln) :
            member \in {MemberOf(clean_line)} })
BraceClassify(info, stack, pending, cname, clean_line, pre_depth, open_count, depth1, ln) ==
    IF cname # NoMatch
    THEN BraceClass(info, stack, pending, cname, pre_depth, open_count, depth1, ln)
    ELSE The({ BraceMember(info, stack, pending, member, pre_depth, depth1, ln) :
                 member \in {MemberOf(clean_line)} })
BracePromoted(info, lang, prom, clean_line, pre_depth, open_count, close_count, ln) ==
    The({ BraceClassify(info, prom[1], prom[2], cname, clean_line, pre_depth, open_count,
                        ClampDepth(pre_depth + open_count - close_count), ln) :
            cname \in {class_re(lang, clean_line)} })
BraceCounted(info, lang, stack0, pending0, pre_depth, clean_line, open_count, close_count, ln) ==
    IF PopRaises(stack0, pre_depth)
    THEN [info |-> info, stack |-> PopClosed(stack0, pre_depth), pending |-> pending0,
          depth |-> pre_depth, raised |-> TRUE]
    ELSE The({ BracePromoted(info, lang, prom, clean_line, pre_depth, open_count,
                             close_count, ln) :
                 prom \in {PromotePending(PopClosed(stack0, pre_depth), pending0,
                                          pre_depth, open_count)} })
BraceStripped(info, lang, stack0, pending0, depth0, clean_line, ln) ==
    The({ BraceCounted(info, lang, stack0, pending0, depth0, clean_line,
                       open_count, close_count, ln) :
            open_count \in {Count(clean_line, "{")}, close_count \in {Count(clean_line, "}")} })
\* the loop body: [info, stack, pending, depth, raised] after the line
BraceLine(info, lang, stack0, pending0, depth0, line, ln) ==
    IF BraceSkipped(line)
    THEN [info |-> info, stack |-> stack0, pending |-> pending0, depth |-> depth0,
          raised |-> FALSE]
    ELSE The({ BraceStripped(info, lang, stack0, pending0, depth0, clean_line, ln) :
                 clean_line \in {Strip(line)} })

\* ------------------------------------------------------------------------
\* parse_malbolge_scoped
\* ------------------------------------------------------------------------
\* [ch for ch in line if ch not in " \t\r\n"]
code_chars(line) == SelectSeq(line, LAMBDA ch : ch \notin {" ", "\t", "\r", "\n"})

LineLabel(ln, n) == <<"L","i","n","e"," ">> \o Str(ln) \o <<" ","(">> \o Str(n) \o <<" ","o","p","s",")">>
TotalLabel(n) == <<"T","o","t","a","l"," ","O","p","s",":"," ">> \o Str(n)
CodeLinesLabel(n) == <<"C","o","d","e"," ","L","i","n","e","s",":"," ">> \o Str(n)
OpLabel(op, cnt) == <<"'", op, "'">> \o <<" ","x"," ">> \o Str(cnt)

\* a line entity added while counted_lines < max_line_nodes
LineNodeWantedBelow(counted) == counted < max_line_nodes
\* a line entity is added while counted_lines <= max_line_nodes
LineNodeWanted(counted) == counted <= max_line_nodes

\* the loop body: [info, total_ops, counted_lines, op_counts] after the line
MalbolgeCounted(info, prog, total, counted, counts, cc, ln) ==
    IF cc = <<>>
    THEN [info |-> info, total |-> total, counted |-> counted, counts |-> counts]
    ELSE [info |-> IF LineNodeWanted(counted + 1)
                   THEN _add_entity(info, prog, LineLabel(ln, Len(cc)), "Method", ln)
                   ELSE info,
          total |-> total + Len(cc),
          counted |-> counted + 1,
          counts |-> [ch \in DOMAIN counts |-> counts[ch] + Count(cc, ch)]]
MalbolgeLine(info, prog, total, counted, counts, line, ln) ==
    The({ MalbolgeCounted(info, prog, total, counted, counts, cc, ln) :
            cc \in {code_chars(line)} })

\* the per-operator entities, in the order of op_chars, for counts > 0
RECURSIVE AddOpStats(_, _, _, _)
AddOpStats(info, prog, counts, k) ==
    IF k > Len(op_chars) THEN info
    ELSE AddOpStats(IF counts[op_chars[k]] > 0
                    THEN _add_entity(info, prog, OpLabel(op_chars[k], counts[op_chars[k]]),
                                     "Variable", 1)
                    ELSE info,
                    prog, counts, k + 1)

\* the summary entities added after the loop
MalbolgeSummary(info, prog, total, counted, counts) ==
    AddOpStats(_add_entity(_add_entity(info, prog, TotalLabel(total), "Variable", 1),
                           prog, CodeLinesLabel(counted), "Variable", 1),
               prog, counts, 1)

\* ------------------------------------------------------------------------
\* Operations
\* ------------------------------------------------------------------------
NoCall == [fn |-> "none", path |-> <<>>, lines |-> <<>>, args |-> <<>>, ret |-> "none"]

Init ==
    /\ tabs_data = <<>>
    /\ refresh_queue = <<>>
    /\ pc = "idle"
    /\ cur_tid = 0
    /\ language = ""
    /\ lines = <<>>
    /\ line_num = 0
    /\ brace_depth = 0
    /\ class_stack = <<>>
    /\ pending_classes = <<>>
    /\ program_node = NoNode
    /\ total_ops = 0
    /\ counted_lines = 0
    /\ op_counts = [ch \in OpCharSet |-> 0]
    /\ raised = FALSE
    /\ call = NoCall

\* the entry create_tab makes in tabs_data (the widgets left out)
NewTab(path) ==
    [path |-> path, code |-> <<>>, language |-> "", tree |-> <<>>, node_map |-> <<>>,
     canvas_item_to_tree |-> <<>>]

\* the skip path taken for every unknown tag
SkipsUnknown(lang, content) == lang = "unknown"
\* parse_scoped takes the skip path
SkipsParse(lang, content) ==
    lang = "unknown" /\ ~is_probably_programming_language(content)

\* the scanner parse_scoped dispatches to
ScannerOf(lang) ==
    IF lang = "python" THEN "python" ELSE IF lang = "malbolge" THEN "malbolge" ELSE "brace"

\* refresh_tab(tid) up to the first iteration of the scanner's loop: the file
\* is read into the code view, parse_scoped detects the language and either
\* skips the parse (root only) or starts the scanner, whose locals are set.
\* td is tabs_data with the tab in it.
\* pending_classes kept from the brace scan before
StartScannerKeepingPending(td, tid, begun, scanner) ==
    /\ pc' = scanner
    /\ line_num' = 0
    /\ CASE scanner = "python" ->
              /\ tabs_data' = [td EXCEPT ![tid] = begun]
              /\ class_stack' = <<>>
              /\ UNCHANGED <<brace_depth, pending_classes, program_node,
                             total_ops, counted_lines, op_counts>>
         [] scanner = "brace" ->
              /\ tabs_data' = [td EXCEPT ![tid] = begun]
              /\ brace_depth' = 0
              /\ class_stack' = <<>>
              /\ UNCHANGED <<pending_classes, program_node, total_ops,
                             counted_lines, op_counts>>
         [] scanner = "malbolge" ->
              /\ tabs_data' = [td EXCEPT ![tid] =
                     _add_entity(begun, RootNode(begun), <<"M","a","l","b","o","l","g","e"," ","P","r","o","g","r","a","m">>, "Class", 1)]
              /\ program_node' = NewNode(begun.tree)
              /\ total_ops' = 0
              /\ counted_lines' = 0
              /\ op_counts' = [ch \in OpCharSet |-> 0]
              /\ UNCHANGED <<brace_depth, class_stack, pending_classes>>
StartScanner(td, tid, begun, scanner) ==
    /\ pc' = scanner
    /\ line_num' = 0
    /\ CASE scanner = "python" ->
              /\ tabs_data' = [td EXCEPT ![tid] = begun]
              /\ class_stack' = <<>>
              /\ UNCHANGED <<brace_depth, pending_classes, program_node,
                             total_ops, counted_lines, op_counts>>
         [] scanner = "brace" ->
              /\ tabs_data' = [td EXCEPT ![tid] = begun]
              /\ brace_depth' = 0
              /\ class_stack' = <<>>
              /\ pending_classes' = <<>>
              /\ UNCHANGED <<program_node, total_ops, counted_lines, op_counts>>
         [] scanner = "malbolge" ->
              /\ tabs_data' = [td EXCEPT ![tid] =
                     _add_entity(begun, RootNode(begun), <<"M","a","l","b","o","l","g","e"," ","P","r","o","g","r","a","m">>, "Class", 1)]
              /\ program_node' = NewNode(begun.tree)
              /\ total_ops' = 0
              /\ counted_lines' = 0
              /\ op_counts' = [ch \in OpCharSet |-> 0]
              /\ UNCHANGED <<brace_depth, class_stack, pending_classes>>
ParseScoped(td, tid, info, content, lang) ==
    /\ cur_tid' = tid
    /\ language' = lang
    /\ lines' = content
    /\ raised' = FALSE
    /\ IF SkipsParse(lang, content)
       THEN /\ tabs_data' = [td EXCEPT ![tid] = _begin_parse(info)]
            /\ pc' = "idle"
            /\ UNCHANGED <<line_num, brace_depth, class_stack, pending_classes,
                           program_node, total_ops, counted_lines, op_counts>>
       ELSE \E begun \in {_begin_parse([info EXCEPT !.language = lang])} :
                StartScanner(td, tid, begun, ScannerOf(lang))
StartParse(td, tid, content) ==
    \E lang \in {detect_language(td[tid].path, content)} :
        ParseScoped(td, tid, [td[tid] EXCEPT !.code = content], content, lang)

\* create_tab(path): a new tab, refreshed at once
create_tab(path, content, cap) ==
    /\ pc = "idle" /\ refresh_queue = <<>>
    /\ Len(tabs_data) < cap
    /\ StartParse(Append(tabs_data, NewTab(path)), Len(tabs_data) + 1, content)
    /\ UNCHANGED <<refresh_queue, call>>

\* refresh_all_tabs: for tid in list(self.tabs_data.keys())
refresh_all_tabs ==
    /\ pc = "idle" /\ refresh_queue = <<>>
    /\ tabs_data # <<>>
    /\ refresh_queue' = [i \in 1..Len(tabs_data) |-> i]
    /\ UNCHANGED <<tabs_data, pc, scan_locals, raised, call>>

\* refresh_tab(tid) of the next tab of the loop of refresh_all_tabs; content
\* is what the file holds now
refresh_tab(content) ==
    /\ pc = "idle" /\ refresh_queue # <<>>
    /\ StartParse(tabs_data, Head(refresh_queue), content)
    /\ refresh_queue' = Tail(refresh_queue)
    /\ UNCHANGED call

\* the assignments of an iteration, the tab info written to every tab
PythonApplyToAll(r) ==
    /\ tabs_data' = [t \in DOMAIN tabs_data |-> r[1]]
    /\ class_stack' = r[2]
\* the assignments of an iteration
PythonApply(r) ==
    /\ tabs_data' = [tabs_data EXCEPT ![cur_tid] = r[1]]
    /\ class_stack' = r[2]
BraceApply(r) ==
    /\ tabs_data' = [tabs_data EXCEPT ![cur_tid] = r.info]
    /\ class_stack' = r.stack
    /\ pending_classes' = r.pending
    /\ brace_depth' = r.depth
    /\ raised' = r.raised
    /\ pc' = IF r.raised THEN "idle" ELSE pc
MalbolgeApply(r) ==
    /\ tabs_data' = [tabs_data EXCEPT ![cur_tid] = r.info]
    /\ total_ops' = r.total
    /\ counted_lines' = r.counted
    /\ op_counts' = r.counts

\* an iteration that does not move on to the next line
python_line_again ==
    /\ pc = "python" /\ line_num < Len(lines)
    /\ \E r \in {PythonLine(tabs_data[cur_tid], class_stack, lines[line_num + 1],
                              line_num + 1)} : PythonApply(r)
    /\ UNCHANGED <<refresh_queue, pc, cur_tid, language, lines, line_num, brace_depth,
                   pending_classes, program_node, total_ops, counted_lines, op_counts,
                   raised, call>>
\* one iteration of the loop of parse_python_scoped
python_line ==
    /\ pc = "python" /\ line_num < Len(lines)
    /\ \E r \in {PythonLine(tabs_data[cur_tid], class_stack, lines[line_num + 1],
                              line_num + 1)} : PythonApply(r)
    /\ line_num' = line_num + 1
    /\ UNCHANGED <<refresh_queue, pc, cur_tid, language, lines, brace_depth, pending_classes,
                   program_node, total_ops, counted_lines, op_counts, raised, call>>

\* one iteration of the loop of parse_brace_scoped
brace_line ==
    /\ pc = "brace" /\ line_num < Len(lines)
    /\ \E r \in {BraceLine(tabs_data[cur_tid], language, class_stack, pending_classes,
                             brace_depth, lines[line_num + 1], line_num + 1)} : BraceApply(r)
    /\ line_num' = line_num + 1
    /\ UNCHANGED <<refresh_queue, cur_tid, language, lines, program_node, total_ops,
                   counted_lines, op_counts, call>>

\* one iteration of the loop of parse_malbolge_scoped
malbolge_line ==
    /\ pc = "malbolge" /\ line_num < Len(lines)
    /\ \E r \in {MalbolgeLine(tabs_data[cur_tid], program_node, total_ops,
                                counted_lines, op_counts, lines[line_num + 1],
                                line_num + 1)} : MalbolgeApply(r)
    /\ line_num' = line_num + 1
    /\ UNCHANGED <<refresh_queue, pc, cur_tid, language, lines, brace_depth, class_stack,
                   pending_classes, program_node, raised, call>>

\* the loop is over: what the scanner does after it, and parse_scoped returns
parse_done ==
    /\ pc # "idle" /\ line_num = Len(lines)
    /\ tabs_data' = IF pc = "malbolge"
                    THEN [tabs_data EXCEPT ![cur_tid] =
                            MalbolgeSummary(tabs_data[cur_tid], program_node, total_ops,
                                            counted_lines, op_counts)]
                    ELSE tabs_data
    /\ pc' = "idle"
    /\ UNCHANGED <<refresh_queue, scan_locals, raised, call>>

\* a direct call of detect_language(path, lines), as the unit tests make
call_detect_language(path, content) ==
    /\ pc = "idle" /\ call = NoCall
    /\ call' = [fn |-> "detect_language", path |-> path, lines |-> content, args |-> <<>>,
                ret |-> detect_language(path, content)]
    /\ UNCHANGED <<tabs_data, refresh_queue, pc, scan_locals, raised>>

\* a direct call of is_probably_programming_language(lines)
call_is_probably(content) ==
    /\ pc = "idle" /\ call = NoCall
    /\ call' = [fn |-> "is_probably_programming_language", path |-> <<>>, lines |-> content,
                args |-> <<>>,
                ret |-> IF is_probably_programming_language(content) THEN "True" ELSE "False"]
    /\ UNCHANGED <<tabs_data, refresh_queue, pc, scan_locals, raised>>

\* a direct call of collect_missing_prerequisites(version_info, module_checker),
\* as the unit tests make: a version and the modules the checker finds
call_collect_missing(major, minor, found) ==
    /\ pc = "idle" /\ call = NoCall
    /\ call' = [fn |-> "collect_missing_prerequisites", path |-> <<>>, lines |-> <<>>,
                args |-> <<major, minor, found>>,
                ret |-> collect_missing_prerequisites(major, minor, found)]
    /\ UNCHANGED <<tabs_data, refresh_queue, pc, scan_locals, raised>>

ScanStep == python_line \/ brace_line \/ malbolge_line \/ parse_done

\* ------------------------------------------------------------------------
\* Inputs
\* ------------------------------------------------------------------------
SeqsUpTo(V, n) == UNION {[1..k -> V] : k \in 0..n}

\* every scanner and the skip path, one tab
ScanPaths == { <<"a",".","c","s">>, <<"a",".","p","y">>, <<"a",".","m","a","l">>, <<"n",".","t","x","t">> }
ScanVocab ==
    { <<"c","l","a","s","s"," ","A"," ","{">>, <<" "," "," "," ","d","e","f"," ","l","o","c","k","(","s","e","l","f",")",":">>, <<" "," "," "," ","l","o","c","k"," ","="," ","N","o","n","e">>,
      <<"i","f"," ","(","x"," ",">"," ","0",")"," ","{">>, <<"e","l","s","e"," ","i","f"," ","(","x",")"," ","{">>, <<"}">>, <<"i","n","t"," ","x",";">> }
ScanContents == SeqsUpTo(ScanVocab, MaxLines)

\* the brace scanner
BracePaths == { <<"a",".","c","s">> }
BraceVocab ==
    { <<"p","u","b","l","i","c"," ","c","l","a","s","s"," ","F","o","o"," ","{">>, <<"c","l","a","s","s"," ","B","a","r">>, <<"{">>, <<"}">>, <<"v","o","i","d"," ","M","(",")"," ","{">>,
      <<"i","n","t"," ","x",";">>, <<"r","e","c","o","r","d"," ","R","(","i","n","t"," ","x",")"," ","{">>, <<"/","/"," ","}">>, <<"{"," ","{">>, <<"e","l","s","e"," ","i","f"," ","(","x",")"," ","{">> }
BraceContents == SeqsUpTo(BraceVocab, MaxBraceLines)

\* the indentation scanner
PyPaths == { <<"a",".","p","y">> }
PyVocab ==
    { <<"c","l","a","s","s"," ","A",":">>, <<" "," "," "," ","d","e","f"," ","b","(","s","e","l","f",")",":">>, <<" "," "," "," "," "," "," "," ","p","a","s","s">>, <<" "," "," "," ","x"," ","="," ","1">>,
      <<" "," "," "," ","c","l","a","s","s"," ","B",":">>, <<" "," "," "," "," "," "," "," ","y"," ","="," ","2">>, <<"#"," ","c","\n">> }
PyContents == SeqsUpTo(PyVocab, MaxPyLines)

\* the census: files with about max_line_nodes lines
MaxExtraLines == 2
CensusPaths == { <<"a",".","m","a","l">> }
\* line k of a long file: of one symbol; or with two blank lines near the top;
\* or of one to three symbols in turn
CensusLine(kind, k) ==
    IF kind = 1 THEN <<"j">>
    ELSE IF kind = 2 THEN (IF k = 2 THEN <<>> ELSE IF k = 5 THEN <<" ", "\t">> ELSE <<"v"," ","o">>)
    ELSE SubSeq(<<"j","i","*">>, 1, (k % 3) + 1)
CensusContents ==
    { [k \in 1..n |-> CensusLine(kind, k)] :
        n \in (max_line_nodes - 1)..(max_line_nodes + MaxExtraLines), kind \in 1..3 }
        \cup SeqsUpTo({ <<"j","i","*","p">>, <<>>, <<"a"," ","b">> }, 2)

\* the prerequisites: versions 2.0 to 4.MaxMinor, and what the checker finds
MaxMinor == 11
Majors == 2..4
Minors == 0..MaxMinor
FoundSets == SUBSET { <<"t","k","i","n","t","e","r">>, <<"P","I","L">>, <<"j","s","o","n">> }

\* several tabs: a small corpus of files
TabPaths == { <<"a",".","c","s">>, <<"a",".","p","y">>, <<"n",".","t","x","t">> }
TabContents ==
    { <<>>,
      << <<"c","l","a","s","s"," ","A"," ","{">>, <<"i","n","t"," ","x",";">> >>,
      << <<"c","l","a","s","s"," ","A",":">>, <<" "," "," "," ","x"," ","="," ","1">> >>,
      << <<"j","i","*","p">>, <<>> >>,
      << <<"c","l","a","s","s"," ","B","a","r">> >>,
      << <<"{">>, <<"i","n","t"," ","x",";">> >>,
      << <<"t","h","i","s"," ","i","s"," ","p","l","a","i","n"," ","t","e","x","t">>, <<"n","o","t","e","s"," ","a","n","d"," ","p","r","o","s","e">> >> }

\* detection
DetectPaths ==
    { <<"a",".","c","s">>, <<"a",".","P","Y">>, <<"b",".","p","y">>, <<"h",".","m","a","l">>, <<"n",".","t","x","t">>, <<".","p","y">>, <<"d",".","x","/","c","s">> }
DetectVocab ==
    { <<"t","h","i","s"," ","i","s"," ","p","l","a","i","n"," ","t","e","x","t">>, <<"n","o","t","e","s"," ","a","n","d"," ","p","r","o","s","e">>, <<"#","!","/","u","s","r","/","b","i","n","/","p","y","t","h","o","n">>,
      <<"U","s","i","n","g"," ","S","y","s","t","e","m",";">>, <<"d","e","f"," ","f","(",")",":">>, <<"x"," ","=",">"," ","y">>, <<"j","i","*","p","<","/","v","o">>, <<"c","l","a","s","s"," ","A"," ","{">>,
      <<"r","e","t","u","r","n"," ","1",";">>, <<"{"," ","{">>, <<"i","m","p","o","r","t"," ","j","a","v","a",".","u","t","i","l",";">> }
MaxDetectLines == 2
\* a file that begins with k empty lines
Padded(k, c) == [i \in 1..k |-> <<>>] \o c
\* the lengths that put a line on either side of lines[:3] and of lines[:120]
PadLens == { HeadLines - 1, HeadLines, SampleLines - 1, SampleLines }
DetectContents ==
    SeqsUpTo(DetectVocab, MaxDetectLines)
        \cup { Padded(k, c) : k \in PadLens, c \in SeqsUpTo(DetectVocab, MaxDetectLines) \ {<<>>} }

\* ------------------------------------------------------------------------
\* Specifications
\* ------------------------------------------------------------------------
\* the application: tabs are created and refreshed
Next ==
    \/ Len(tabs_data) < MaxTabs /\ pc = "idle"
          /\ \E p \in TabPaths, c \in TabContents : create_tab(p, c, MaxTabs)
    \/ refresh_all_tabs
    \/ \E c \in TabContents : refresh_tab(c)
    \/ python_line
    \/ brace_line
    \/ malbolge_line
    \/ parse_done
Spec == Init /\ [][Next]_vars

\* one scan of one file, in every mode; a file is opened while no tab is open
NextScan ==
    \/ tabs_data = <<>>
          /\ \E p \in ScanPaths, c \in ScanContents : create_tab(p, c, 1)
    \/ python_line
    \/ brace_line
    \/ malbolge_line
    \/ parse_done
SpecScan == Init /\ [][NextScan]_vars

\* one scan by the brace scanner
NextBrace ==
    \/ tabs_data = <<>>
          /\ \E p \in BracePaths, c \in BraceContents : create_tab(p, c, 1)
    \/ brace_line
    \/ parse_done
SpecBrace == Init /\ [][NextBrace]_vars

\* one scan by the indentation scanner
NextPython ==
    \/ tabs_data = <<>>
          /\ \E p \in PyPaths, c \in PyContents : create_tab(p, c, 1)
    \/ python_line
    \/ parse_done
SpecPython == Init /\ [][NextPython]_vars

\* one scan by one of the two scanners that keep scope frames
NextFrames ==
    \/ tabs_data = <<>>
          /\ \E p \in BracePaths, c \in BraceContents : create_tab(p, c, 1)
    \/ tabs_data = <<>>
          /\ \E p \in PyPaths, c \in PyContents : create_tab(p, c, 1)
    \/ brace_line
    \/ python_line
    \/ parse_done
SpecFrames == Init /\ [][NextFrames]_vars

\* files of blank lines and comment lines among declarations
BraceSkipVocab ==
    { <<"c","l","a","s","s"," ","B","a","r">>, <<"{">>, <<"}">>, <<"i","n","t"," ","x",";">>, <<"/","/"," ","}">>, <<" "," ","-","-"," ","{">>, <<"#"," ","{">>, <<" ">> }
BraceSkipContents == SeqsUpTo(BraceSkipVocab, MaxBraceLines)
PySkipVocab ==
    { <<"c","l","a","s","s"," ","A",":">>, <<" "," "," "," ","c","l","a","s","s"," ","B",":">>, <<" "," "," "," ","x"," ","="," ","1">>, <<"#"," ","x"," ","="," ","1","\n">>, <<" "," ","#"," ","c">>, <<"\n">> }
PySkipContents == SeqsUpTo(PySkipVocab, MaxPyLines)
\* one scan of such a file by one of the two scanners that keep scope frames
NextSkips ==
    \/ tabs_data = <<>>
          /\ \E p \in BracePaths, c \in BraceSkipContents : create_tab(p, c, 1)
    \/ tabs_data = <<>>
          /\ \E p \in PyPaths, c \in PySkipContents : create_tab(p, c, 1)
    \/ brace_line
    \/ python_line
    \/ parse_done
SpecSkips == Init /\ [][NextSkips]_vars

\* files of assignments inside and outside classes
PyAssignVocab ==
    { <<"c","l","a","s","s"," ","A",":">>, <<" "," "," "," ","d","e","f"," ","b","(","s","e","l","f",")",":">>, <<" "," "," "," ","x"," ","="," ","1">>, <<"x"," ","="," ","1">>, <<" "," "," "," ","y"," ","="," ","f","(","1",")">>,
      <<" "," "," "," "," "," "," "," ","s","e","l","f",".","z"," ","="," ","2">> }
PyAssignContents == SeqsUpTo(PyAssignVocab, MaxPyLines)
\* one scan of such a file by the indentation scanner
NextAssign ==
    \/ tabs_data = <<>>
          /\ \E p \in PyPaths, c \in PyAssignContents : create_tab(p, c, 1)
    \/ python_line
    \/ parse_done
SpecAssign == Init /\ [][NextAssign]_vars

\* one scan by the census
NextCensus ==
    \/ tabs_data = <<>>
          /\ \E p \in CensusPaths, c \in CensusContents : create_tab(p, c, 1)
    \/ malbolge_line
    \/ parse_done
SpecCensus == Init /\ [][NextCensus]_vars

\* one scan in one of the three modes
NextModes ==
    \/ tabs_data = <<>>
          /\ \E p \in BracePaths, c \in BraceContents : create_tab(p, c, 1)
    \/ tabs_data = <<>>
          /\ \E p \in PyPaths, c \in PyContents : create_tab(p, c, 1)
    \/ tabs_data = <<>>
          /\ \E p \in CensusPaths, c \in CensusContents : create_tab(p, c, 1)
    \/ brace_line
    \/ python_line
    \/ malbolge_line
    \/ parse_done
SpecModes == Init /\ [][NextModes]_vars

\* the two detection functions, called directly
NextDetect ==
    \/ call = NoCall
          /\ \E p \in DetectPaths, c \in DetectContents : call_detect_language(p, c)
    \/ call = NoCall
          /\ \E c \in DetectContents : call_is_probably(c)
SpecDetect == Init /\ [][NextDetect]_vars

\* the prerequisite check, called directly
NextPrereq ==
    call = NoCall
        /\ \E major \in Majors, minor \in Minors, found \in FoundSets :
              call_collect_missing(major, minor, found)
SpecPrereq == Init /\ [][NextPrereq]_vars

\* a scan runs to its end: parse_scoped is synchronous, so a started loop
\* goes on taking its steps
SpecFair == Init /\ [][NextScan]_vars /\ WF_vars(ScanStep)

\* ------------------------------------------------------------------------
\* Properties
\* ------------------------------------------------------------------------
\* the tabs no scan is running on
Scanned(t) == pc = "idle" \/ t # cur_tid
\* the declaration line of the i-th entity of a tab
LineOf(info, i) == info.node_map[info.tree[i].id]
\* the position in the tree of the entity with an id: 0 for the item "",
\* Len(tree) + 1 for an id the tree does not hold
PosOfId(tree, id) ==
    IF id = NoNode THEN 0
    ELSE IF \E k \in 1..Len(tree) : tree[k].id = id
    THEN CHOOSE k \in 1..Len(tree) : tree[k].id = id
    ELSE Len(tree) + 1
\* the entities of a tab in order: <<name, kind, declaration line, parent position>>
Shape(info) ==
    [i \in 1..Len(info.tree) |->
        <<info.tree[i].name, info.tree[i].kind, LineOf(info, i),
          PosOfId(info.tree, info.tree[i].parent)>>]
RootShape == << <<"P","r","o","j","e","c","t"," ","R","o","o","t">>, "Root", 1, 0 >>

\* C1: after a scan in any mode the tab's tree is a single rooted tree: its
\* first entity is the root and has no parent, every other entity has a parent
\* that was inserted before it (so its ancestor chain ends at the root and
\* there is no cycle and no orphan), and no two entities share an id.
WellFormedTree(tree) ==
    /\ tree # <<>>
    /\ tree[1].kind = "Root" /\ tree[1].parent = NoNode
    /\ \A i \in 2..Len(tree) :
          /\ tree[i].kind # "Root"
          /\ \E j \in 1..(i - 1) : tree[j].id = tree[i].parent
    /\ \A i, j \in 1..Len(tree) : tree[i].id = tree[j].id => i = j
C1_SingleRootedTree ==
    \A t \in DOMAIN tabs_data : WellFormedTree(tabs_data[t].tree)
\* a finished scan whose tree has an entity nested under a non-root entity
C1_Witness ==
    /\ pc = "idle" /\ cur_tid # 0
    /\ \E i \in 2..Len(tabs_data[cur_tid].tree) :
          PosOfId(tabs_data[cur_tid].tree, tabs_data[cur_tid].tree[i].parent) > 1

\* C2: in the brace scanner the running brace depth is never negative at a
\* line boundary, also when a line closes more braces than are open.
C2_DepthNeverNegative == brace_depth >= 0
\* the first line is a lone closing brace, consumed at depth 0
C2_Witness ==
    /\ cur_tid # 0 /\ line_num >= 1
    /\ lines[1] = <<"}">>
    /\ brace_depth = 0

\* C3 as stated: in every language family no Method or Variable is named
\* one of the blocked keywords.
IsMember(e) == e.kind \in {"Method", "Variable"}
Prose == << <<"t","h","i","s"," ","i","s"," ","p","l","a","i","n"," ","t","e","x","t">>, <<"n","o","t","e","s"," ","a","n","d"," ","p","r","o","s","e">> >>
C4_ProseIsUnknown ==
    /\ (/\ call.fn = "detect_language"
        /\ Lower(SplitExt(call.path)) \notin DOMAIN extension_map
        /\ call.lines = Prose)
          => call.ret = "unknown"
    /\ (call.fn = "is_probably_programming_language" /\ call.lines = Prose)
          => call.ret = "False"

\* C5 as stated: no scan raises, and the finished scan of an empty file leaves
\* a tree that holds the root only, whatever the language.
C5_EmptyInputRootOnly ==
    /\ ~raised
    /\ \A t \in DOMAIN tabs_data :
          (Scanned(t) /\ tabs_data[t].code = <<>>) => Shape(tabs_data[t]) = <<RootShape>>
\* what the census leaves of an empty file
EmptyCensusShape ==
    << RootShape,
       << <<"M","a","l","b","o","l","g","e"," ","P","r","o","g","r","a","m">>, "Class", 1, 1 >>,
       << <<"T","o","t","a","l"," ","O","p","s",":"," ","0">>, "Variable", 1, 2 >>,
       << <<"C","o","d","e"," ","L","i","n","e","s",":"," ","0">>, "Variable", 1, 2 >> >>
\* C5 as amended: no scan raises, and the finished scan of an empty file leaves
\* a tree that holds the root only, except under a malbolge tag, where it holds
\* the root, the "Malbolge Program" class and its two totals, both 0.
C5_EmptyInputRootOrCensus ==
    /\ ~raised
    /\ \A t \in DOMAIN tabs_data :
          (Scanned(t) /\ tabs_data[t].code = <<>>) =>
              Shape(tabs_data[t]) =
                  IF detect_language(tabs_data[t].path, <<>>) = "malbolge"
                  THEN EmptyCensusShape ELSE <<RootShape>>
\* the finished scan of an empty .mal file
C5_Witness ==
    /\ pc = "idle" /\ cur_tid # 0
    /\ lines = <<>> /\ language = "malbolge" /\ ~raised
    /\ Len(tabs_data[cur_tid].tree) = Len(EmptyCensusShape)

\* the indent of a line and whether the indentation scanner processes it
IndentOf(code, k) == LeadingSpaces(RStripNewline(code[k]))
Processed(code, k) == ~PySkipped(code[k])
\* the lines of the classes that enclose line l: processed class lines before
\* it with a smaller indent that no processed line in between has dedented to
EnclosingClassLines(code, l) ==
    { k \in 1..(l - 1) :
        /\ Processed(code, k)
        /\ py_class_re(RStripNewline(code[k])) # NoMatch
        /\ IndentOf(code, k) < IndentOf(code, l)
        /\ \A m \in (k + 1)..(l - 1) :
              Processed(code, m) => IndentOf(code, m) > IndentOf(code, k) }
\* the position of the entity declared on a line
PosOfLine(info, k) == CHOOSE i \in 2..Len(info.tree) : LineOf(info, i) = k
\* the position of the parent the rule gives the entity of line l
ExpectedPyParent(info, l) ==
    IF EnclosingClassLines(info.code, l) = {} THEN 1
    ELSE PosOfLine(info, SetMax(EnclosingClassLines(info.code, l)))
PyExample == << <<"c","l","a","s","s"," ","A",":">>, <<" "," "," "," ","d","e","f"," ","b","(","s","e","l","f",")",":">>, <<" "," "," "," "," "," "," "," ","p","a","s","s">>, <<" "," "," "," ","x"," ","="," ","1">> >>
PyExampleShape ==
    << RootShape,
       << <<"A">>, "Class", 1, 1 >>,
       << <<"b">>, "Method", 2, 2 >>,
       << <<"x">>, "Variable", 4, 2 >> >>
\* C6: in the indentation scanner every Method or Variable is a child of the
\* nearest class above it that has a smaller indent and that no line in
\* between has dedented out of, of the root when there is none; the example
\* file gives root -> A -> [b (line 2), x (line 4)].
C6_AttachedToEnclosingClass ==
    \A t \in DOMAIN tabs_data :
        /\ \A i \in 2..Len(tabs_data[t].tree) :
              IsMember(tabs_data[t].tree[i]) =>
                  PosOfId(tabs_data[t].tree, tabs_data[t].tree[i].parent)
                      = ExpectedPyParent(tabs_data[t], LineOf(tabs_data[t], i))
        /\ (Scanned(t) /\ tabs_data[t].code = PyExample)
              => Shape(tabs_data[t]) = PyExampleShape
\* the example file, scanned to its end
C6_Witness ==
    /\ pc = "idle" /\ cur_tid # 0 /\ language = "python"
    /\ lines = PyExample
    /\ Len(tabs_data[cur_tid].tree) = Len(PyExampleShape)

\* the line the brace scanner is about to consume, stripped
NextClean == Strip(lines[line_num + 1])
\* a class line with an opening brace met at depth 0 with no open and no
\* pending class
TopLevelClassLine ==
    /\ pc = "brace" /\ line_num < Len(lines)
    /\ brace_depth = 0 /\ class_stack = <<>> /\ pending_classes = <<>>
    /\ ~BraceSkipped(lines[line_num + 1])
    /\ class_re(language, NextClean) # NoMatch
    /\ Count(NextClean, "{") > 0
\* C7: in the brace scanner a class line with an opening brace, met at depth 0
\* with no open and no pending class, adds exactly one entity: a Class of the
\* captured name under the root, declared on that line (`public class Foo {`
\* gives Foo, `record R(int x) {` gives R), and no Method or Variable.
C7_TopLevelClassOnly ==
    [][TopLevelClassLine =>
          /\ Shape(tabs_data'[cur_tid]) =
                Append(Shape(tabs_data[cur_tid]),
                       <<class_re(language, NextClean), "Class", line_num + 1, 1>>)
          /\ (NextClean = <<"p","u","b","l","i","c"," ","c","l","a","s","s"," ","F","o","o"," ","{">>) =>
                tabs_data'[cur_tid].tree[Len(tabs_data'[cur_tid].tree)].name = <<"F","o","o">>
          /\ (NextClean = <<"r","e","c","o","r","d"," ","R","(","i","n","t"," ","x",")"," ","{">>) =>
                tabs_data'[cur_tid].tree[Len(tabs_data'[cur_tid].tree)].name = <<"R">>]_vars
\* `public class Foo {` consumed as the first line of a .cs file
C7_Witness ==
    /\ cur_tid # 0 /\ language = "csharp" /\ line_num = 1
    /\ lines[1] = <<"p","u","b","l","i","c"," ","c","l","a","s","s"," ","F","o","o"," ","{">>
    /\ Shape(tabs_data[cur_tid]) = << RootShape, << <<"F","o","o">>, "Class", 1, 1 >> >>

\* C8: two finished scans of the same path and lines, whatever was scanned
\* before either, leave the same sequence of <<name, kind, declaration line,
\* parent position>>.
C8_SameInputSameTree ==
    \A t, u \in DOMAIN tabs_data :
        (/\ Scanned(t) /\ Scanned(u)
         /\ tabs_data[t].path = tabs_data[u].path
         /\ tabs_data[t].code = tabs_data[u].code)
            => Shape(tabs_data[t]) = Shape(tabs_data[u])
\* two tabs hold the same file, scanned at different times, with entities
C8_Witness ==
    /\ pc = "idle" /\ Len(tabs_data) = 2 /\ refresh_queue = <<>>
    /\ tabs_data[1].path = tabs_data[2].path
    /\ tabs_data[1].code = tabs_data[2].code
    /\ Len(tabs_data[1].tree) > 2

C10_MappedExtensionDecides ==
    (call.fn = "detect_language") =>
        /\ (Lower(SplitExt(call.path)) \in DOMAIN extension_map)
              => call.ret = extension_map[Lower(SplitExt(call.path))]
        /\ (call.path \in { <<"a",".","P","Y">>, <<"b",".","p","y">> }) => call.ret = "python"
        /\ (call.path = <<"a",".","c","s">>) => call.ret = "csharp"
        /\ (call.path = <<"h",".","m","a","l">>) => call.ret = "malbolge"
\* a .PY path with lines that carry the csharp signature is python
C10_Witness ==
    /\ call.fn = "detect_language"
    /\ call.path = <<"a",".","P","Y">>
    /\ call.lines = << <<"U","s","i","n","g"," ","S","y","s","t","e","m",";">> >>
    /\ call.ret = "python"

\* the markers of the heuristic: eleven keywords with a trailing space, the
\* two braces, the semicolon and the arrow
C11_Markers ==
    { <<"c","l","a","s","s"," ">>, <<"d","e","f"," ">>, <<"f","u","n","c","t","i","o","n"," ">>, <<"f","u","n","c"," ">>, <<"f","n"," ">>, <<"p","u","b","l","i","c"," ">>,
      <<"p","r","i","v","a","t","e"," ">>, <<"i","m","p","o","r","t"," ">>, <<"u","s","i","n","g"," ">>, <<"n","a","m","e","s","p","a","c","e"," ">>, <<"r","e","t","u","r","n"," ">>,
      <<"{">>, <<"}">>, <<";">>, <<"=",">">> }
\* the markers that occur in one of the first 120 lines
MarkersIn(ls) ==
    { m \in C11_Markers : \E k \in 1..Len(ls) : k <= 120 /\ Contains(ls[k], m) }
\* C11: is_probably_programming_language returns true iff at least 2 markers
\* of the marker set occur in the first 120 lines, a marker counting once
\* however often it occurs; it is true for "class A {", "return 1;" and false
\* for "this is plain text", "notes and prose".
C11_TwoDistinctMarkers ==
    (call.fn = "is_probably_programming_language") =>
        /\ (call.ret = "True") <=> (Cardinality(MarkersIn(call.lines)) >= 2)
        /\ (call.lines = << <<"c","l","a","s","s"," ","A"," ","{">>, <<"r","e","t","u","r","n"," ","1",";">> >>) => call.ret = "True"
        /\ (call.lines = Prose) => call.ret = "False"
\* 119 empty lines, then a line with two opening braces, then, as line 121, a
\* line with an arrow: one marker in the sample, found twice, and the answer
\* is false
C11_Witness ==
    /\ call.fn = "is_probably_programming_language"
    /\ call.lines = Padded(119, << <<"{"," ","{">>, <<"x"," ","=",">"," ","y">> >>)
    /\ call.ret = "False"

\* the characters of a file
CharsOf(ls) == UNION { { ls[k][i] : i \in 1..Len(ls[k]) } : k \in 1..Len(ls) }
C13_Alphabet == {"j", "i", "*", "p", "<", "/", "v", "o"}
\* C13: with an extension that is not in the table and lines made of the
\* symbols j i * p < / v o and whitespace only, at least one symbol among
\* them, detect_language returns malbolge.
C13_AlphabetIsMalbolge ==
    (/\ call.fn = "detect_language"
     /\ Lower(SplitExt(call.path)) \notin DOMAIN extension_map
     /\ CharsOf(call.lines) \subseteq (C13_Alphabet \cup {" ", "\t", "\n", "\r"})
     /\ CharsOf(call.lines) \cap C13_Alphabet # {})
        => call.ret = "malbolge"

\* a signature's text occurs in one of the first three lines, whatever its case
InHead(ls, s) == \E k \in 1..Len(ls) : k <= 3 /\ Contains(Lower(ls[k]), s)
\* the signatures in their order of priority, each with whether the lines
\* carry it
C14_Signatures(ls) ==
    << <<"python", ls # <<>> /\ StartsWith(Lower(ls[1]), <<"#","!","/">>) /\ InHead(ls, <<"p","y","t","h","o","n">>)>>,
       <<"csharp", InHead(ls, <<"u","s","i","n","g"," ","s","y","s","t","e","m",";">>) \/ InHead(ls, <<"n","a","m","e","s","p","a","c","e"," ">>)>>,
       <<"java", InHead(ls, <<"p","u","b","l","i","c"," ","s","t","a","t","i","c"," ","v","o","i","d"," ","m","a","i","n">>) \/ InHead(ls, <<"i","m","p","o","r","t"," ","j","a","v","a",".">>)>>,
       <<"python", InHead(ls, <<"d","e","f"," ">>) /\ InHead(ls, <<":">>)>>,
       <<"javascript", InHead(ls, <<"f","u","n","c","t","i","o","n"," ">>) \/ InHead(ls, <<"=",">">>)>>,
       <<"malbolge", \E c \in C13_Alphabet : InHead(ls, <<c>>)>> >>
\* the tag of the first signature carried, unknown when none is
FirstCarried(sigs) ==
    IF \E k \in 1..Len(sigs) : sigs[k][2]
    THEN sigs[SetMin({k \in 1..Len(sigs) : sigs[k][2]})][1]
    ELSE "unknown"
\* C14: with an extension that is not in the table, the tag is that of the
\* first signature the first three lines carry, in the order python shebang,
\* csharp tokens, java tokens, python def + colon, javascript function or
\* arrow, alphabet symbol, and unknown when they carry none; lines with a
\* csharp and a def + colon signature are csharp, lines with an arrow and
\* alphabet symbols are javascript.
C14_FirstSignatureDecides ==
    (/\ call.fn = "detect_language"
     /\ Lower(SplitExt(call.path)) \notin DOMAIN extension_map)
        => /\ call.ret = FirstCarried(C14_Signatures(call.lines))
           /\ (call.lines = << <<"d","e","f"," ","f","(",")",":">>, <<"U","s","i","n","g"," ","S","y","s","t","e","m",";">> >>) => call.ret = "csharp"
           /\ (call.lines = << <<"j","i","*","p","<","/","v","o">>, <<"x"," ","=",">"," ","y">> >>) => call.ret = "javascript"
\* the python def + colon signature on the first line, the csharp one on the
\* second: csharp
C14_Witness ==
    /\ call.fn = "detect_language"
    /\ call.path = <<"n",".","t","x","t">>
    /\ call.lines = << <<"d","e","f"," ","f","(",")",":">>, <<"U","s","i","n","g"," ","S","y","s","t","e","m",";">> >>
    /\ call.ret = "csharp"

\* no signature in the lines of a tab whose extension is not in the table
TaggedUnknown(info) ==
    /\ Lower(SplitExt(info.path)) \notin DOMAIN extension_map
    /\ FirstCarried(C14_Signatures(info.code)) = "unknown"
\* fewer than two markers in the lines of a tab
Rejected(info) == Cardinality(MarkersIn(info.code)) < 2
\* the container keywords of the base spec
BaseKeywords ==
    { <<"c","l","a","s","s">>, <<"i","n","t","e","r","f","a","c","e">>, <<"s","t","r","u","c","t">>, <<"r","e","c","o","r","d">>, <<"e","n","u","m">>, <<"m","o","d","u","l","e">> }
\* C12: when a tab's lines are tagged unknown and the heuristic rejects them,
\* the scan leaves the root only and no scanner runs on them; when they are
\* tagged unknown and the heuristic accepts them, the brace scanner runs under
\* the tag unknown, whose container keywords are those of the base spec
\* (`class A {` on n.txt gives the class A).
C12_UnknownSkipsOrBrace ==
    \A t \in DOMAIN tabs_data :
        TaggedUnknown(tabs_data[t]) =>
            IF Rejected(tabs_data[t])
            THEN /\ Shape(tabs_data[t]) = <<RootShape>>
                 /\ (t = cur_tid) => (pc = "idle" /\ language = "unknown")
            ELSE /\ tabs_data[t].language = "unknown"
                 /\ (t = cur_tid) =>
                       /\ pc \in {"brace", "idle"} /\ language = "unknown"
                       /\ KeywordSet(class_keywords(language)) = BaseKeywords
                 /\ (Scanned(t) /\ tabs_data[t].code = << <<"c","l","a","s","s"," ","A"," ","{">> >>)
                       => Shape(tabs_data[t]) = << RootShape, << <<"A">>, "Class", 1, 1 >> >>
\* a file n.txt of one closing brace: one marker only, the scan is skipped and
\* no line is consumed
C12_Witness ==
    /\ pc = "idle" /\ cur_tid # 0
    /\ tabs_data[cur_tid].path = <<"n",".","t","x","t">>
    /\ tabs_data[cur_tid].code = << <<"}">> >>
    /\ language = "unknown" /\ line_num = 0
    /\ Shape(tabs_data[cur_tid]) = <<RootShape>>

\* a scan of a file on its own, in one piece: the loops of the three scanners
\* from the first line to the last
RECURSIVE PyAlone(_, _, _)
PyAlone(r, code, k) ==
    IF k > Len(code) THEN r[1]
    ELSE PyAlone(PythonLine(r[1], r[2], code[k], k), code, k + 1)
RECURSIVE BraceAlone(_, _, _, _)
BraceAlone(r, lang, code, k) ==
    IF k > Len(code) \/ r.raised THEN r.info
    ELSE BraceAlone(BraceLine(r.info, lang, r.stack, r.pending, r.depth, code[k], k),
                    lang, code, k + 1)
RECURSIVE CensusAlone(_, _, _, _)
CensusAlone(r, prog, code, k) ==
    IF k > Len(code) THEN MalbolgeSummary(r.info, prog, r.total, r.counted, r.counts)
    ELSE CensusAlone(MalbolgeLine(r.info, prog, r.total, r.counted, r.counts, code[k], k),
                     prog, code, k + 1)
ScanFrom(begun, lang, code) ==
    IF SkipsParse(lang, code) THEN begun
    ELSE IF lang = "python" THEN PyAlone(<<begun, <<>>>>, code, 1)
    ELSE IF lang = "malbolge"
    THEN CensusAlone([info |-> _add_entity(begun, RootNode(begun), <<"M","a","l","b","o","l","g","e"," ","P","r","o","g","r","a","m">>,
                                           "Class", 1),
                      total |-> 0, counted |-> 0, counts |-> [ch \in OpCharSet |-> 0]],
                     NewNode(begun.tree), code, 1)
    ELSE BraceAlone([info |-> begun, stack |-> <<>>, pending |-> <<>>, depth |-> 0,
                     raised |-> FALSE], lang, code, 1)
\* what the scan of a file in a tab opened for it leaves
ScanAlone(path, code) ==
    ScanFrom(_begin_parse(NewTab(path)), detect_language(path, code), code)
\* the same, worked out once for every file a tab can hold
ScannedAlone == [p \in TabPaths, c \in TabContents |-> ScanAlone(p, c)]

\* the ids of the entities of a tree
IdsOf(tree) == { tree[i].id : i \in 1..Len(tree) }
\* C15: whatever was scanned in a tab before, a finished scan leaves in the
\* tab's tree, node_map and canvas_item_to_tree exactly what the scan of the
\* latest lines in a new tab leaves, the skipped scan included; and at every
\* moment node_map has an entry for the ids of the tree and no other, and
\* canvas_item_to_tree maps one canvas item to the root, three to every other
\* entity and none to anything else.
C15_RebuiltFromScratch ==
    \A t \in DOMAIN tabs_data :
        /\ DOMAIN tabs_data[t].node_map = IdsOf(tabs_data[t].tree)
        /\ \A i \in 1..Len(tabs_data[t].tree) :
              Cardinality({ c \in DOMAIN tabs_data[t].canvas_item_to_tree :
                              tabs_data[t].canvas_item_to_tree[c] = tabs_data[t].tree[i].id })
                  = IF i = 1 THEN 1 ELSE 3
        /\ Cardinality(DOMAIN tabs_data[t].canvas_item_to_tree) = 3 * Len(tabs_data[t].tree) - 2
        /\ Scanned(t) =>
              \E alone \in {ScannedAlone[tabs_data[t].path, tabs_data[t].code]} :
                  /\ tabs_data[t].tree = alone.tree
                  /\ tabs_data[t].node_map = alone.node_map
                  /\ tabs_data[t].canvas_item_to_tree = alone.canvas_item_to_tree
\* the only tab, n.txt, holds the root alone after the skipped scan of `class
\* Bar`, and the scan before it, of the same tab, had consumed two lines
C15_Witness ==
    /\ pc = "idle" /\ Len(tabs_data) = 1
    /\ tabs_data[1].path = <<"n",".","t","x","t">>
    /\ tabs_data[1].code = << <<"c","l","a","s","s"," ","B","a","r">> >>
    /\ line_num = 2
    /\ Len(tabs_data[1].tree) = 1

\* C16: a step of a scan of one tab leaves the entry of every other tab as it
\* is, and whatever the order in which the tabs were scanned, every tab that
\* is not being scanned holds the tree, with its declaration lines, that the
\* scan of its own path and lines alone gives.
C16_TabsIndependent ==
    /\ [][\A t \in DOMAIN tabs_data : (t # cur_tid') => tabs_data'[t] = tabs_data[t]]_vars
    /\ [](\A t \in DOMAIN tabs_data :
             Scanned(t) => Shape(tabs_data[t])
                              = Shape(ScannedAlone[tabs_data[t].path, tabs_data[t].code]))
\* two tabs with different files, the second scanned after the first and the
\* first then scanned again, each holding entities
C16_Witness ==
    /\ pc = "idle" /\ Len(tabs_data) = 2 /\ refresh_queue = <<2>>
    /\ tabs_data[1].path # tabs_data[2].path
    /\ tabs_data[1].code # tabs_data[2].code
    /\ Len(tabs_data[1].tree) > 1 /\ Len(tabs_data[2].tree) > 1

\* the line an entity is declared on, as the lines of the file show it: the
\* census declares its program and its summary entities on line 1 and a line
\* entity on the line its label names, the other scanners declare an entity
\* on a line that holds its name
DeclaredOn(info, i, l) ==
    IF detect_language(info.path, info.code) = "malbolge"
    THEN IF info.tree[i].kind = "Method"
         THEN /\ l \in 1..Len(info.code)
              /\ StartsWith(info.tree[i].name, <<"L","i","n","e"," ">> \o Str(l) \o <<" ","(">>)
         ELSE l = 1
    ELSE /\ l \in 1..Len(info.code)
         /\ Contains(info.code[l], info.tree[i].name)
\* C17: in every tab no two entities share an id, node_map has one entry for
\* the id of every entity, the root included, and for nothing else, the root's
\* line is 1 and every other entity's line is the line it is declared on.
C17_OneLinePerEntity ==
    \A t \in DOMAIN tabs_data :
        /\ \A i, j \in 1..Len(tabs_data[t].tree) :
              (tabs_data[t].tree[i].id = tabs_data[t].tree[j].id) => i = j
        /\ DOMAIN tabs_data[t].node_map = IdsOf(tabs_data[t].tree)
        /\ tabs_data[t].node_map[tabs_data[t].tree[1].id] = 1
        /\ \A i \in 2..Len(tabs_data[t].tree) :
              DeclaredOn(tabs_data[t], i, tabs_data[t].node_map[tabs_data[t].tree[i].id])
\* a finished brace scan with a class on line 1 and a member on line 3
C17_Witness ==
    /\ pc = "idle" /\ cur_tid # 0 /\ language = "csharp"
    /\ Len(tabs_data[cur_tid].tree) = 3
    /\ LineOf(tabs_data[cur_tid], 2) = 1
    /\ LineOf(tabs_data[cur_tid], 3) = 3

\* the characters of a line that are not whitespace, by their indices
NonBlankAt(line) == { i \in 1..Len(line) : line[i] \notin {" ", "\t", "\r", "\n"} }
\* the lines with at least one such character, and the j-th of them
CodeLines(code) == { k \in 1..Len(code) : NonBlankAt(code[k]) # {} }
NthCodeLine(code, j) ==
    CHOOSE k \in CodeLines(code) : Cardinality({ m \in CodeLines(code) : m <= k }) = j
\* the number of such characters in the whole file
AllOps(code) ==
    Cardinality(UNION { { <<k, i>> : i \in NonBlankAt(code[k]) } : k \in 1..Len(code) })
MethodsOf(tree) == SelectSeq(tree, LAMBDA e : e.kind = "Method")
NamesOf(tree) == { tree[i].name : i \in 1..Len(tree) }
\* C18: a finished census of a file with N lines that hold a non-whitespace
\* character has min(N, 120) line entities, the j-th for the j-th such line,
\* labelled with that line's index and its count of non-whitespace
\* characters, and its summary entities give N as the number of code lines and
\* the count over all N lines as the total.
C18_CappedLineEntities ==
    \A t \in DOMAIN tabs_data :
        (Scanned(t) /\ detect_language(tabs_data[t].path, tabs_data[t].code) = "malbolge") =>
            \E n \in {Cardinality(CodeLines(tabs_data[t].code))},
               methods \in {MethodsOf(tabs_data[t].tree)} :
                /\ Len(methods) = IF n < 120 THEN n ELSE 120
                /\ \A j \in 1..Len(methods) :
                      \E l \in {NthCodeLine(tabs_data[t].code, j)} :
                          /\ tabs_data[t].node_map[methods[j].id] = l
                          /\ methods[j].name =
                                <<"L","i","n","e"," ">> \o Str(l) \o <<" ","(">>
                                    \o Str(Cardinality(NonBlankAt(tabs_data[t].code[l])))
                                    \o <<" ","o","p","s",")">>
                /\ (<<"C","o","d","e"," ","L","i","n","e","s",":"," ">> \o Str(n)) \in NamesOf(tabs_data[t].tree)
                /\ (<<"T","o","t","a","l"," ","O","p","s",":"," ">> \o Str(AllOps(tabs_data[t].code)))
                      \in NamesOf(tabs_data[t].tree)
\* a finished census of a file with more than 120 code lines: 120 line
\* entities
C18_Witness ==
    /\ pc = "idle" /\ cur_tid # 0 /\ language = "malbolge"
    /\ counted_lines > 120
    /\ Len(MethodsOf(tabs_data[cur_tid].tree)) = 120
    /\ (<<"C","o","d","e"," ","L","i","n","e","s",":"," ">> \o Str(counted_lines)) \in NamesOf(tabs_data[cur_tid].tree)

\* the prerequisites a call does not meet, in the order Python version,
\* tkinter, PIL, each by a word of its message
UnmetWords(major, minor, found) ==
    (IF 100 * major + minor >= 309 THEN <<>> ELSE << <<"P","y","t","h","o","n"," ","3",".","9","+">> >>)
        \o (IF <<"t","k","i","n","t","e","r">> \in found THEN <<>> ELSE << <<"T","k","i","n","t","e","r">> >>)
        \o (IF <<"P","I","L">> \in found THEN <<>> ELSE << <<"P","i","l","l","o","w">> >>)
\* C19: collect_missing_prerequisites returns the empty list iff the version
\* is at least 3.9 and the checker finds tkinter and PIL, and otherwise one
\* message for each prerequisite that is not met, in the order Python version,
\* tkinter, PIL.
C19_OneMessagePerUnmet ==
    (call.fn = "collect_missing_prerequisites") =>
        \E unmet \in {UnmetWords(call.args[1], call.args[2], call.args[3])} :
            /\ (call.ret = <<>>) <=>
                  (/\ 100 * call.args[1] + call.args[2] >= 309
                   /\ { <<"t","k","i","n","t","e","r">>, <<"P","I","L">> } \subseteq call.args[3])
            /\ Len(call.ret) = Len(unmet)
            /\ \A k \in 1..Len(unmet) : Contains(call.ret[k], unmet[k])
\* version 4.0 with tkinter found and PIL not: one message, for Pillow
C19_Witness ==
    /\ call.fn = "collect_missing_prerequisites"
    /\ call.args = <<4, 0, { <<"t","k","i","n","t","e","r">> }>>
    /\ Len(call.ret) = 1
    /\ Contains(call.ret[1], <<"P","i","l","l","o","w">>)

\* the frames that are active when the brace scanner looks for a member on
\* the next line: class_stack after the frames closed before the line are
\* popped and a pending class is promoted by the line's opening brace
ActiveFrames ==
    PromotePending(PopClosed(class_stack, brace_depth), pending_classes, brace_depth,
                   Count(NextClean, "{"))[1]
\* the innermost of them whose boundary is pre_depth, the root when there is
\* none
FrameAtPreDepth(frames, root) ==
    IF \E k \in 1..Len(frames) : frames[k].depth = brace_depth
    THEN frames[SetMax({ k \in 1..Len(frames) : frames[k].depth = brace_depth })].tree_id
    ELSE root
\* the step of the brace scanner adds a Method or a Variable
MemberAdded ==
    /\ pc = "brace" /\ line_num < Len(lines)
    /\ Len(tabs_data'[cur_tid].tree) = Len(tabs_data[cur_tid].tree) + 1
    /\ IsMember(tabs_data'[cur_tid].tree[Len(tabs_data'[cur_tid].tree)])
\* C20: a Method or Variable the brace scanner finds on a line becomes a child
\* of the innermost active frame whose boundary is pre_depth, of the root only
\* when no active frame has that boundary, also on a line whose opening brace
\* promotes a pending class.
C20_MemberUnderFrameAtPreDepth ==
    [][MemberAdded =>
          tabs_data'[cur_tid].tree[Len(tabs_data'[cur_tid].tree)].parent
              = FrameAtPreDepth(ActiveFrames, RootNode(tabs_data[cur_tid]))]_vars

\* ------------------------------------------------------------------------
\* The scope frames of the scanners
\* ------------------------------------------------------------------------
\* the brace scanner is about to process a line it does not skip
BraceProcesses ==
    /\ pc = "brace" /\ line_num < Len(lines)
    /\ ~BraceSkipped(lines[line_num + 1])
\* open_count of that line
NextOpens == Count(NextClean, "{")
\* the entities the entries of a stack or of a queue stand for
NodesOf(entries) == { entries[k].tree_id : k \in 1..Len(entries) }
\* the step adds an entity of a kind to the tab being scanned
Added(kind) ==
    /\ Len(tabs_data'[cur_tid].tree) = Len(tabs_data[cur_tid].tree) + 1
    /\ tabs_data'[cur_tid].tree[Len(tabs_data'[cur_tid].tree)].kind = kind
\* the entry of a class found on the line, its body not opened
PendingEntry(tree) ==
    [name |-> tree[Len(tree)].name, tree_id |-> tree[Len(tree)].id, depth |-> NoneDepth]

\* C21: in the brace scanner a pending class is a Class of the tree, has no
\* boundary and is not on the active stack, and an active frame has a
\* boundary; a processed line without an opening brace leaves the queue as it
\* is, but for the class it finds, which joins the queue at its end and not the
\* stack; a processed line with opening braces, however many, takes exactly the
\* oldest pending class off the queue and makes it an active frame of
\* boundary pre_depth + 1 (which stays on the stack unless the line's own
\* closing braces bring the depth under that boundary).
C21_OldestPendingPromoted ==
    /\ [](/\ NodesOf(class_stack) \cap NodesOf(pending_classes) = {}
          /\ \A k \in 1..Len(class_stack) : class_stack[k].depth # NoneDepth
          /\ \A k \in 1..Len(pending_classes) :
                /\ pending_classes[k].depth = NoneDepth
                /\ \E i \in 1..Len(tabs_data[cur_tid].tree) :
                      /\ tabs_data[cur_tid].tree[i].id = pending_classes[k].tree_id
                      /\ tabs_data[cur_tid].tree[i].kind = "Class")
    /\ [][BraceProcesses =>
            IF NextOpens = 0
            THEN /\ pending_classes' =
                       IF Added("Class")
                       THEN Append(pending_classes, PendingEntry(tabs_data'[cur_tid].tree))
                       ELSE pending_classes
                 /\ NodesOf(class_stack') \subseteq NodesOf(class_stack)
            ELSE IF pending_classes = <<>>
            THEN pending_classes' = <<>>
            ELSE /\ pending_classes' = Tail(pending_classes)
                 /\ \A k \in 1..Len(class_stack') :
                       class_stack'[k].tree_id = Head(pending_classes).tree_id
                           => class_stack'[k].depth = brace_depth + 1
                 /\ brace_depth' > brace_depth
                       => Head(pending_classes).tree_id \in NodesOf(class_stack')]_vars
\* `class Bar` twice, then a line with two opening braces: the first Bar is
\* an active frame of boundary 1, the second is still pending
C21_Witness ==
    /\ pc = "brace" /\ line_num = 3
    /\ lines = << <<"c","l","a","s","s"," ","B","a","r">>, <<"c","l","a","s","s"," ","B","a","r">>, <<"{"," ","{">> >>
    /\ brace_depth = 2
    /\ Len(class_stack) = 1 /\ class_stack[1].depth = 1
    /\ Len(pending_classes) = 1
    /\ class_stack[1].tree_id < pending_classes[1].tree_id

\* the indentation scanner is about to process a line it does not skip
PythonProcesses ==
    /\ pc = "python" /\ line_num < Len(lines)
    /\ ~PySkipped(lines[line_num + 1])
\* indent of that line
NextIndent == LeadingSpaces(RStripNewline(lines[line_num + 1]))
\* the frame is on the stack
OnStack(frame, stack) == \E j \in 1..Len(stack) : stack[j] = frame

\* C22 as stated: a processed line leaves on the stack, of the frames that were
\* on it, exactly those whose boundary is strictly below the running depth
\* after the line (brace scanner) or the line's indentation (indentation
\* scanner); a frame the depth or the indentation has fallen to is popped.
C22_PoppedAtOrBelowBoundary ==
    [][/\ BraceProcesses =>
            \A k \in 1..Len(class_stack) :
                OnStack(class_stack[k], class_stack')
                    <=> class_stack[k].depth < brace_depth'
       /\ PythonProcesses =>
            \A k \in 1..Len(class_stack) :
                OnStack(class_stack[k], class_stack')
                    <=> class_stack[k].indent < NextIndent]_vars
\* C22 as amended: in the brace scanner a processed line leaves on the stack,
\* of the frames that were on it, exactly those whose boundary is at or below
\* the running depth after the line, and no frame it pushes stays with a
\* boundary above that depth: a frame is popped when the depth falls below its
\* boundary, not when the depth falls to it. In the indentation scanner a
\* processed line leaves exactly the frames whose indent is strictly below
\* the line's indentation.
C22_PoppedBelowBoundary ==
    [][/\ BraceProcesses =>
            /\ \A k \in 1..Len(class_stack) :
                  OnStack(class_stack[k], class_stack')
                      <=> class_stack[k].depth <= brace_depth'
            /\ \A j \in 1..Len(class_stack') : class_stack'[j].depth <= brace_depth'
       /\ PythonProcesses =>
            \A k \in 1..Len(class_stack) :
                OnStack(class_stack[k], class_stack')
                    <=> class_stack[k].indent < NextIndent]_vars
\* Foo opened, M opened inside it, then `}`: the depth has fallen from 2 to
\* 1, the boundary of Foo, and Foo is still on the stack
C22_Witness ==
    /\ pc = "brace" /\ line_num = 3
    /\ lines = << <<"p","u","b","l","i","c"," ","c","l","a","s","s"," ","F","o","o"," ","{">>, <<"v","o","i","d"," ","M","(",")"," ","{">>, <<"}">> >>
    /\ brace_depth = 1
    /\ Len(class_stack) = 1 /\ class_stack[1].depth = 1

\* the braces of a line and nothing else: a line that matches no pattern and
\* has the same open_count and close_count
OnlyBraces(s) == SelectSeq(s, LAMBDA ch : ch \in {"{", "}"})
\* the brace scanner is about to process a line on which it finds no class, a
\* callable pattern matches, and the captured name is a blocked keyword
RejectedNext ==
    /\ BraceProcesses
    /\ class_re(language, NextClean) = NoMatch
    /\ method_patterns(NextClean) \in blocked
\* C23: in the brace scanner a line whose callable match captures a blocked
\* keyword (the line holding no class declaration) adds no entity, whether or
\* not a datum pattern matches it, and leaves the stack, the queue and the
\* depth exactly as the same line's braces alone leave them: what a line
\* that matches nothing does.
C23_RejectedLikeNoMatch ==
    [][RejectedNext =>
          /\ tabs_data' = tabs_data
          /\ \E r \in {BraceLine(tabs_data[cur_tid], language, class_stack, pending_classes,
                                 brace_depth, OnlyBraces(NextClean), line_num + 1)} :
                /\ class_stack' = r.stack
                /\ pending_classes' = r.pending
                /\ brace_depth' = r.depth]_vars
\* `class Bar`, then `else if (x) {`: the tab holds the root and Bar only,
\* and the brace of the rejected line has opened Bar
C23_Witness ==
    /\ pc = "brace" /\ line_num = 2
    /\ lines[1] = <<"c","l","a","s","s"," ","B","a","r">> /\ lines[2] = <<"e","l","s","e"," ","i","f"," ","(","x",")"," ","{">>
    /\ method_patterns(lines[2]) = <<"i","f">>
    /\ Len(tabs_data[cur_tid].tree) = 2
    /\ brace_depth = 1 /\ Len(class_stack) = 1 /\ pending_classes = <<>>
\* C23 as stated: the rejected line adds no entity and changes nothing of the
\* scanner but the depth
C23_RejectedChangesDepthOnly ==
    [][RejectedNext =>
          /\ tabs_data' = tabs_data
          /\ class_stack' = class_stack
          /\ pending_classes' = pending_classes]_vars

\* nothing but white space
BlankText(s) == \A k \in 1..Len(s) : s[k] \in SpaceCh
\* white space, then one of the prefixes
CommentText(s, prefixes) ==
    \E i \in 1..Len(s), k \in 1..Len(prefixes) :
        /\ \A j \in 1..(i - 1) : s[j] \in SpaceCh
        /\ StartsAt(s, i, prefixes[k])
\* the next line of the scan is blank or a comment of the scanner at work: a
\* prefix of get_language_spec in the brace scanner, `#` in the indentation
\* scanner
NextIsBlankOrComment ==
    /\ pc \in {"brace", "python"} /\ line_num < Len(lines)
    /\ \/ BlankText(lines[line_num + 1])
       \/ CommentText(lines[line_num + 1],
                      IF pc = "brace" THEN comment_prefixes ELSE << <<"#">> >>)
\* C24: a blank line or a comment line creates no entity and leaves the
\* depth, the active stack and the pending queue as they are, in the brace
\* scanner and in the indentation scanner, whatever braces the comment holds
\* and however little it is indented.
C24_BlankAndCommentSkipped ==
    [][NextIsBlankOrComment =>
          /\ tabs_data' = tabs_data
          /\ brace_depth' = brace_depth
          /\ class_stack' = class_stack
          /\ pending_classes' = pending_classes]_vars
\* A: and B: are open and the comment at column 0 and the blank line have
\* been passed
C24_Witness ==
    /\ pc = "python" /\ line_num = 4
    /\ lines = << <<"c","l","a","s","s"," ","A",":">>, <<" "," "," "," ","c","l","a","s","s"," ","B",":">>, <<"#"," ","x"," ","="," ","1","\n">>, <<"\n">> >>
    /\ Len(class_stack) = 2
    /\ Len(tabs_data[cur_tid].tree) = 3

\* the frames the next line of the indentation scanner leaves open: those
\* of a smaller indent
StillOpen == SelectSeq(class_stack, LAMBDA f : f.indent < NextIndent)
\* C25: the indentation scanner creates a Variable only on a line that
\* lies inside an open class (the stack is not empty once the classes the
\* line closes are popped), is indented strictly deeper than the innermost
\* frame and holds no parenthesis, and the Variable goes under that frame;
\* a line that no class encloses adds no Variable.
C25_DatumOnlyInsideContainer ==
    [][PythonProcesses =>
          /\ Added("Variable") =>
                /\ StillOpen # <<>>
                /\ class_stack' = StillOpen
                /\ NextIndent > Top(class_stack').indent
                /\ ~Contains(lines[line_num + 1], <<"(">>)
                /\ tabs_data'[cur_tid].tree[Len(tabs_data'[cur_tid].tree)].parent
                      = Top(class_stack').tree_id
          /\ StillOpen = <<>> => ~Added("Variable")]_vars
\* `class A:`, `    x = 1`, then `x = 1` at column 0: one Variable, under A,
\* and none for the assignment outside the class
C25_Witness ==
    /\ pc = "python" /\ line_num = 3
    /\ lines = << <<"c","l","a","s","s"," ","A",":">>, <<" "," "," "," ","x"," ","="," ","1">>, <<"x"," ","="," ","1">> >>
    /\ class_stack = <<>>
    /\ Len(tabs_data[cur_tid].tree) = 3
    /\ tabs_data[cur_tid].tree[3].kind = "Variable"
    /\ tabs_data[cur_tid].tree[3].parent = tabs_data[cur_tid].tree[2].id

\* C26: in the brace scanner, after every line each frame of the active
\* stack has a boundary, not the None of a pending class, and the boundary is
\* at most the depth; so the pop loop that opens the next line, run against
\* that depth, removes no frame.
C26_FramesWithinDepth ==
    [](pc = "brace" =>
          /\ \A k \in 1..Len(class_stack) :
                /\ class_stack[k].depth # NoneDepth
                /\ class_stack[k].depth <= brace_depth
          /\ PopClosed(class_stack, brace_depth) = class_stack)
\* Foo is open at depth 1 after the record it holds has opened and closed
C26_Witness ==
    /\ pc = "brace" /\ line_num = 3
    /\ lines = << <<"p","u","b","l","i","c"," ","c","l","a","s","s"," ","F","o","o"," ","{">>, <<"r","e","c","o","r","d"," ","R","(","i","n","t"," ","x",")"," ","{">>, <<"}">> >>
    /\ brace_depth = 1
    /\ Len(class_stack) = 1 /\ class_stack[1].name = <<"F","o","o">> /\ class_stack[1].depth = 1
    /\ Len(tabs_data[cur_tid].tree) = 3

\* the i-th entity of a tree is the parent of another
HasChildren(tree, i) == \E k \in 1..Len(tree) : tree[k].parent = tree[i].id
\* C27: in the three scan modes, during the scan and after it, an entity
\* that has children is the root or a Class: a Method or a Variable is a leaf.
C27_OnlyContainersHaveChildren ==
    \A t \in DOMAIN tabs_data :
        \A i \in 1..Len(tabs_data[t].tree) :
            HasChildren(tabs_data[t].tree, i) => tabs_data[t].tree[i].kind \in {"Root", "Class"}
\* `class A:`, `    def b(self):`, `        y = 2`: y lies deeper than b
\* and is a child of A
C27_Witness ==
    /\ pc = "python" /\ line_num = 3
    /\ lines = << <<"c","l","a","s","s"," ","A",":">>, <<" "," "," "," ","d","e","f"," ","b","(","s","e","l","f",")",":">>, <<" "," "," "," "," "," "," "," ","y"," ","="," ","2">> >>
    /\ Len(tabs_data[cur_tid].tree) = 4
    /\ tabs_data[cur_tid].tree[3].kind = "Method"
    /\ tabs_data[cur_tid].tree[4].kind = "Variable"
    /\ tabs_data[cur_tid].tree[4].parent = tabs_data[cur_tid].tree[2].id

\* the classes of a tree that are neither on the stack nor in the queue: a
\* class is pushed or queued by the line that declares it, so these are the
\* classes whose frame has been popped
ClosedOf(tree, stack, pending) ==
    { tree[k].id : k \in {j \in 1..Len(tree) : tree[j].kind = "Class"} }
        \ (NodesOf(stack) \cup NodesOf(pending))
\* one of the two scanners that keep frames is about to read a line
FramesStep == pc \in {"brace", "python"} /\ line_num < Len(lines)
\* the entity the step adds
LastAdded == tabs_data'[cur_tid].tree[Len(tabs_data'[cur_tid].tree)]
\* C28: in the brace scanner and the indentation scanner a class whose frame
\* has been popped stays off the stack and off the queue for the rest of the
\* scan, and an entity a later line adds is not its child (in the indentation
\* scanner, where the pop comes first, not even the entity of the line that
\* pops it); and a child of a Class is declared on a line strictly after the
\* line of the Class.
C28_PoppedForGood ==
    /\ [](\A t \in DOMAIN tabs_data :
            \A i \in 2..Len(tabs_data[t].tree) :
                \A j \in {PosOfId(tabs_data[t].tree, tabs_data[t].tree[i].parent)} :
                    tabs_data[t].tree[j].kind = "Class"
                        => LineOf(tabs_data[t], i) > LineOf(tabs_data[t], j))
    /\ [][FramesStep =>
            /\ ClosedOf(tabs_data[cur_tid].tree, class_stack, pending_classes)
                  \subseteq ClosedOf(tabs_data'[cur_tid].tree, class_stack', pending_classes')
            /\ Len(tabs_data'[cur_tid].tree) > Len(tabs_data[cur_tid].tree) =>
                  /\ LastAdded.parent
                        \notin ClosedOf(tabs_data[cur_tid].tree, class_stack, pending_classes)
                  /\ pc = "python" =>
                        LastAdded.parent \notin ClosedOf(tabs_data'[cur_tid].tree,
                                                         class_stack', pending_classes')]_vars
\* B: was closed by `    x = 1`; the deeper `        y = 2` that follows is a
\* child of A, which is still open
C28_Witness ==
    /\ pc = "python" /\ line_num = 4
    /\ lines = << <<"c","l","a","s","s"," ","A",":">>, <<" "," "," "," ","c","l","a","s","s"," ","B",":">>, <<" "," "," "," ","x"," ","="," ","1">>, <<" "," "," "," "," "," "," "," ","y"," ","="," ","2">> >>
    /\ Len(tabs_data[cur_tid].tree) = 5
    /\ NodesOf(class_stack) = {tabs_data[cur_tid].tree[2].id}
    /\ ClosedOf(tabs_data[cur_tid].tree, class_stack, pending_classes)
          = {tabs_data[cur_tid].tree[3].id}
    /\ tabs_data[cur_tid].tree[5].parent = tabs_data[cur_tid].tree[2].id

====
